---- MODULE Spec2Model ----
(***************************************************************************)
(* Country Instability Index engine (src/src/services/country-instability.ts*)
(* with the whitelist of src/src/config/countries.ts).                     *)
(*                                                                         *)
(* Representation.                                                         *)
(*  - A JavaScript string the program searches, measures or slices (a      *)
(*    country code, a country name, a free text) is a tuple of one-letter  *)
(*    strings; the empty tuple also stands for null / undefined, which the *)
(*    program only ever tests for truthiness.  Enumerated strings that are *)
(*    only compared (severity, intensity, eventType) are TLA+ strings.     *)
(*  - A real number x is the integer x * K (fixed point, K = 10^4).        *)
(*    NaN is the integer NaN, outside every range the program computes.    *)
(*  - A nullable object is a tuple: << >> for null, << v >> for v.         *)
(*  - A geographic position is a point name; Lat, Lon and the registry     *)
(*    entries in range of it are tables over the point names.              *)
(***************************************************************************)
EXTENDS Integers, Sequences, FiniteSets, TLC

VARIABLES
    countryDataMap,            \* Map<string, CountryData>
    hotspotActivityMap,        \* Map<string, number>, weights in quarters
    previousScores,            \* Map<string, number>
    learningStartTime,         \* number | null : << >> or << ms >>
    isLearningComplete,
    hasCachedScoresAvailable,
    now,                       \* Date.now(), in ms
    focalUrgency               \* focalPointDetector's urgency of each code

vars == << countryDataMap, hotspotActivityMap, previousScores,
           learningStartTime, isLearningComplete, hasCachedScoresAvailable,
           now, focalUrgency >>

dataVars == << countryDataMap, hotspotActivityMap >>
learnVars == << learningStartTime, isLearningComplete, hasCachedScoresAvailable >>

K == 10 ^ 4
NaN == -999

Min(a, b) == IF a <= b THEN a ELSE b
Max(a, b) == IF a >= b THEN a ELSE b

\* Math.round on a fixed-point number: the nearest integer, halves upwards.
MathRound(x) == (2 * x + K) \div (2 * K)

\* Math.ceil(ms / 60000)
CeilMinutes(ms) == (ms + 59999) \div 60000

RECURSIVE SumSeq(_)
SumSeq(s) == IF s = << >> THEN 0 ELSE Head(s) + SumSeq(Tail(s))

(***************************************************************************)
(* Strings                                                                 *)
(***************************************************************************)
LowerChar(c) ==
    CASE c = "A" -> "a" [] c = "B" -> "b" [] c = "C" -> "c" [] c = "D" -> "d"
      [] c = "E" -> "e" [] c = "F" -> "f" [] c = "G" -> "g" [] c = "H" -> "h"
      [] c = "I" -> "i" [] c = "J" -> "j" [] c = "K" -> "k" [] c = "L" -> "l"
      [] c = "M" -> "m" [] c = "N" -> "n" [] c = "O" -> "o" [] c = "P" -> "p"
      [] c = "Q" -> "q" [] c = "R" -> "r" [] c = "S" -> "s" [] c = "T" -> "t"
      [] c = "U" -> "u" [] c = "V" -> "v" [] c = "W" -> "w" [] c = "X" -> "x"
      [] c = "Y" -> "y" [] c = "Z" -> "z" [] OTHER -> c

toLowerCase(s) == [i \in 1..Len(s) |-> LowerChar(s[i])]

\* String.prototype.includes
includes(hay, needle) ==
    \E i \in 0..(Len(hay) - Len(needle)) :
        SubSeq(hay, i + 1, i + Len(needle)) = needle

\* String.prototype.substring(0, n)
substring0(s, n) == SubSeq(s, 1, Min(n, Len(s)))

ID == <<"I", "D">>
UA == <<"U", "A">>
Indonesia == <<"I", "n", "d", "o", "n", "e", "s", "i", "a">>
Ukraine == <<"U", "k", "r", "a", "i", "n", "e">>
Bali == <<"B", "a", "l", "i">>
JAKARTA == <<"J", "A", "K", "A", "R", "T", "A">>
BaliRiot == <<"B", "a", "l", "i", " ", "r", "i", "o", "t">>
PeruVote == <<"P", "e", "r", "u", " ", "v", "o", "t", "e">>
IDN == <<"I", "D", "N">>
IDX == <<"I", "D", "X">>
UKR == <<"U", "K", "R">>
constructorKey == <<"c", "o", "n", "s", "t", "r", "u", "c", "t", "o", "r">>
valueOfKey == <<"v", "a", "l", "u", "e", "O", "f">>

\* The free texts of the inputs below.
SampleTexts == {Indonesia, Ukraine, Bali, JAKARTA, BaliRiot, PeruVote, << >>}

\* The property names every object literal inherits from Object.prototype:
\* obj[key] is a (truthy) function for them although the literal does not
\* list them.  nativeFunctionText stands for such a function used as a key.
ObjectPrototypeKeys == {constructorKey, valueOfKey}
nativeFunctionText == <<"f", "u", "n", "c", "t", "i", "o", "n", " ", "(", ")">>

(***************************************************************************)
(* Configuration tables                                                    *)
(***************************************************************************)
\* Object.entries(TIER1_COUNTRIES)
TIER1_COUNTRIES == << [code |-> ID, name |-> Indonesia] >>

Tier1Codes == {TIER1_COUNTRIES[i].code : i \in 1..Len(TIER1_COUNTRIES)}

\* The truthiness of TIER1_COUNTRIES[code].
InTier1(code) == code \in Tier1Codes \/ code \in ObjectPrototypeKeys

COUNTRY_KEYWORDS ==
    << [code |-> ID, keywords |-> <<
       <<"i", "n", "d", "o", "n", "e", "s", "i", "a">>,
       <<"j", "a", "k", "a", "r", "t", "a">>,
       <<"j", "o", "k", "o", "w", "i">>,
       <<"p", "r", "a", "b", "o", "w", "o">>,
       <<"t", "n", "i">>,
       <<"i", "n", "d", "o", "n", "e", "s", "i", "a", "n">>,
       <<"j", "a", "v", "a">>,
       <<"s", "u", "m", "a", "t", "r", "a">>,
       <<"k", "a", "l", "i", "m", "a", "n", "t", "a", "n">>,
       <<"s", "u", "l", "a", "w", "e", "s", "i">>,
       <<"p", "a", "p", "u", "a">>,
       <<"b", "a", "l", "i">>,
       <<"n", "k", "r", "i">>,
       <<"d", "p", "r", " ", "r", "i">>,
       <<"k", "e", "m", "h", "a", "n">> >>] >>

\* COUNTRY_KEYWORDS[code] || []
KeywordsOf(code) ==
    LET hit == {i \in 1..Len(COUNTRY_KEYWORDS) : COUNTRY_KEYWORDS[i].code = code}
    IN  IF hit = {} THEN << >> ELSE COUNTRY_KEYWORDS[CHOOSE i \in hit : TRUE].keywords

\* BASELINE_RISK[code] ?? 20 : a number, or NaN where the lookup yields an
\* inherited function, which ?? keeps and the arithmetic turns into NaN.
BaselineRisk(code) ==
    IF code = ID THEN 20 * K
    ELSE IF code \in ObjectPrototypeKeys THEN NaN
    ELSE 20 * K

\* EVENT_MULTIPLIER[code] ?? 1.0, in tenths (12 is 1.2)
EventMultiplier(code) ==
    IF code = ID THEN 12
    ELSE IF code \in ObjectPrototypeKeys THEN NaN
    ELSE 10

LEARNING_DURATION_MS == 15 * 60 * 1000

(***************************************************************************)
(* Geography.  The registries of @/config/geo and the polygon lookup of    *)
(* ./country-geometry are given as tables over the sample positions.       *)
(***************************************************************************)
\* Latitude and longitude in tenths of a degree
Lat(pt) == CASE pt = "jakarta" -> -62 [] pt = "offAceh" -> 65 [] pt = "penang" -> 54
             [] pt = "kyiv" -> 505 [] pt = "hormuz" -> 266
Lon(pt) == CASE pt = "jakarta" -> 1068 [] pt = "offAceh" -> 953 [] pt = "penang" -> 1003
             [] pt = "kyiv" -> 305 [] pt = "hormuz" -> 563

\* getCountryAtCoordinates(lat, lon, candidates): the code of the candidate
\* whose polygon holds the position, or null.
getCountryAtCoordinates(pt) == IF pt = "jakarta" THEN ID ELSE << >>

\* offAceh lies north of Indonesia's bounding box, some 100 km off Banda Aceh.
\* The ids of the INTEL_HOTSPOTS within 150 km of the position (haversine),
\* of the CONFLICT_ZONES within 300 km and of the STRATEGIC_WATERWAYS
\* within 200 km, in registry order.
HotspotsInRange(pt) ==
    CASE pt = "jakarta" -> <<"jakarta", "bandung">>
      [] pt = "offAceh" -> <<"aceh">>
      [] OTHER -> << >>
ZonesInRange(pt) == IF pt = "kyiv" THEN <<"ukraine">> ELSE << >>
WaterwaysInRange(pt) == IF pt = "hormuz" THEN <<"hormuz_strait">> ELSE << >>

\* [minLat, maxLat, minLon, maxLon], in tenths of a degree
COUNTRY_BOUNDS ==
    << [code |-> ID, minLat |-> -110, maxLat |-> 60, minLon |-> 950, maxLon |-> 1410] >>

RECURSIVE BoundsScan(_, _)
BoundsScan(bounds, pt) ==
    IF bounds = << >> THEN << >>
    ELSE LET b == Head(bounds)
         IN  IF /\ Lat(pt) >= b.minLat /\ Lat(pt) <= b.maxLat
                /\ Lon(pt) >= b.minLon /\ Lon(pt) <= b.maxLon
             THEN b.code
             ELSE BoundsScan(Tail(bounds), pt)

getCountryFromLocation(pt) ==
    LET precise == getCountryAtCoordinates(pt)
    IN  IF precise # << >> /\ InTier1(precise) THEN precise
        ELSE BoundsScan(COUNTRY_BOUNDS, pt)

\* HOTSPOT_COUNTRY_MAP[hotspot.id]
HOTSPOT_COUNTRY_MAP(id) ==
    IF id \in {"jakarta", "ikn", "papua", "natuna", "morowali", "bali", "surabaya",
               "medan", "makassar", "bandung", "semarang", "aceh", "maluku"}
    THEN ID ELSE << >>

\* zoneCountries[zone.id] || []
zoneCountries(id) ==
    CASE id = "ukraine" -> << UA, <<"R", "U">> >>
      [] id = "gaza" -> << <<"I", "L">>, <<"I", "R">> >>
      [] id = "sudan" -> << <<"S", "A">> >>
      [] id = "myanmar" -> << <<"M", "M">> >>
      [] OTHER -> << >>

\* waterwayCountries[waterway.id] || []
waterwayCountries(id) ==
    CASE id = "taiwan_strait" -> << <<"T", "W">>, <<"C", "N">> >>
      [] id = "hormuz_strait" -> << <<"I", "R">>, <<"S", "A">> >>
      [] id = "bab_el_mandeb" -> << <<"Y", "E">>, <<"S", "A">> >>
      [] id = "suez" -> << <<"I", "L">> >>
      [] id = "bosphorus" -> << <<"T", "R">> >>
      [] OTHER -> << >>

(***************************************************************************)
(* Maps.  A Map is a function whose domain is its key set.                 *)
(***************************************************************************)
EmptyMap == << >>

MapHas(m, k) == k \in DOMAIN m
MapSet(m, k, v) == [x \in (DOMAIN m) \cup {k} |-> IF x = k THEN v ELSE m[x]]

initCountryData ==
    [protests |-> << >>, conflicts |-> << >>, ucdpStatus |-> << >>,
     hapiSummary |-> << >>, militaryFlights |-> << >>, militaryVessels |-> << >>,
     newsEvents |-> << >>, outages |-> << >>, displacementOutflow |-> 0,
     climateStress |-> 0]

\* A variant of Ensure that makes a fresh record whether or not the country
\* has one; C19_LatestStored tells the two apart.
EnsureFresh(cdm, code) == MapSet(cdm, code, initCountryData)

\* if (!countryDataMap.has(code)) countryDataMap.set(code, initCountryData())
Ensure(cdm, code) == IF MapHas(cdm, code) THEN cdm ELSE MapSet(cdm, code, initCountryData)

\* A variant of Push that overwrites the list instead of appending to it;
\* C7_ListsGrow tells the two apart.
PushReplacing(cdm, code, field, e) ==
    LET m == Ensure(cdm, code)
    IN  [m EXCEPT ![code] = [@ EXCEPT ![field] = << e >>]]

\* countryDataMap.get(code)!.<field>.push(e)
Push(cdm, code, field, e) ==
    LET m == Ensure(cdm, code)
    IN  [m EXCEPT ![code] = [@ EXCEPT ![field] = Append(@, e)]]

\* countryDataMap.get(code)!.<field> = v
SetField(cdm, code, field, v) ==
    LET m == Ensure(cdm, code)
    IN  [m EXCEPT ![code] = [@ EXCEPT ![field] = v]]

(***************************************************************************)
(* Country attribution                                                     *)
(***************************************************************************)
RECURSIVE KeywordScan(_, _)
KeywordScan(entries, lower) ==
    IF entries = << >> THEN << >>
    ELSE LET kws == Head(entries).keywords
         IN  IF \E i \in 1..Len(kws) : includes(lower, kws[i])
             THEN Head(entries).code
             ELSE KeywordScan(Tail(entries), lower)

RECURSIVE NameScan(_, _)
NameScan(entries, lower) ==
    IF entries = << >> THEN << >>
    ELSE IF includes(lower, toLowerCase(Head(entries).name))
         THEN Head(entries).code
         ELSE NameScan(Tail(entries), lower)

normalizeCountryNameScan(name) ==
    LET lower == toLowerCase(name)
        byKeyword == KeywordScan(COUNTRY_KEYWORDS, lower)
    IN  IF byKeyword # << >> THEN byKeyword ELSE NameScan(TIER1_COUNTRIES, lower)

\* keywords.some(kw => title.includes(kw)) for the keywords of code
KeywordHitScan(code, text) ==
    LET keywords == KeywordsOf(code)
        title == toLowerCase(text)
    IN  \E i \in 1..Len(keywords) : includes(title, keywords[i])

\* The two scans, computed once for each of the sample texts.
NormalizedSamples == [t \in SampleTexts |-> normalizeCountryNameScan(t)]
KeywordHitSamples == [c \in Tier1Codes, t \in SampleTexts |-> KeywordHitScan(c, t)]

normalizeCountryName(name) ==
    IF name \in SampleTexts THEN NormalizedSamples[name] ELSE normalizeCountryNameScan(name)

KeywordHit(code, text) ==
    IF code \in Tier1Codes /\ text \in SampleTexts THEN KeywordHitSamples[code, text]
    ELSE KeywordHitScan(code, text)

(***************************************************************************)
(* Hotspot activity: weights are in quarters (4 is the weight 1).          *)
(***************************************************************************)
\* hotspotActivityMap.get(code) || 0
ActivityOf(ham, code) == IF MapHas(ham, code) THEN ham[code] ELSE 0

AddActivity(ham, code, w) == MapSet(ham, code, ActivityOf(ham, code) + w)

RECURSIVE AddToCodes(_, _, _)
AddToCodes(ham, codes, w) ==
    IF codes = << >> THEN ham
    ELSE AddToCodes(IF InTier1(Head(codes)) THEN AddActivity(ham, Head(codes), w) ELSE ham,
                    Tail(codes), w)

RECURSIVE TrackHotspots(_, _, _)
TrackHotspots(ham, ids, w) ==
    IF ids = << >> THEN ham
    ELSE LET countryCode == HOTSPOT_COUNTRY_MAP(Head(ids))
         IN  TrackHotspots(IF countryCode # << >> /\ InTier1(countryCode)
                           THEN AddActivity(ham, countryCode, w) ELSE ham,
                           Tail(ids), w)

RECURSIVE TrackZones(_, _, _)
TrackZones(ham, ids, w) ==
    IF ids = << >> THEN ham
    ELSE TrackZones(AddToCodes(ham, zoneCountries(Head(ids)), w * 2), Tail(ids), w)

RECURSIVE TrackWaterways(_, _, _)
TrackWaterways(ham, ids, w) ==
    IF ids = << >> THEN ham
    ELSE TrackWaterways(AddToCodes(ham, waterwayCountries(Head(ids)), (w * 3) \div 2),
                        Tail(ids), w)

trackHotspotActivity(ham, pt, w) ==
    TrackWaterways(
        TrackZones(TrackHotspots(ham, HotspotsInRange(pt), w), ZonesInRange(pt), w),
        WaterwaysInRange(pt), w)

\* A variant of getHotspotBoost without the outer cap; C15_HotspotBoost tells
\* the two apart.
getHotspotBoostUncapped(ham, code) == (ActivityOf(ham, code) * 3 * K) \div 8

\* Math.min(10, activity * 1.5), fixed point
getHotspotBoost(ham, code) == Min(10 * K, (ActivityOf(ham, code) * 3 * K) \div 8)


(***************************************************************************)
(* Ingestion.  Each loop is the body of the function's for loop, applied   *)
(* to the batch from its first element on; st is the pair of maps.         *)
(***************************************************************************)
St(cdm, ham) == [cdm |-> cdm, ham |-> ham]

\* A variant of ProtestsLoop that tracks the position of an event before it
\* looks at its country; C11_UnattributedDropped tells the two apart.
RECURSIVE ProtestsLoopTracking(_, _)
ProtestsLoopTracking(st, events) ==
    IF events = << >> THEN st
    ELSE LET e == Head(events)
             code == normalizeCountryName(e.country)
             ham == trackHotspotActivity(st.ham, e.pt, IF e.severity = "high" THEN 8 ELSE 4)
         IN  IF code = << >> \/ ~InTier1(code)
             THEN ProtestsLoopTracking(St(st.cdm, ham), Tail(events))
             ELSE ProtestsLoopTracking(St(Push(st.cdm, code, "protests", e), ham),
                                       Tail(events))

RECURSIVE ProtestsLoop(_, _)
ProtestsLoop(st, events) ==
    IF events = << >> THEN st
    ELSE LET e == Head(events)
             code == normalizeCountryName(e.country)
         IN  IF code = << >> \/ ~InTier1(code) THEN ProtestsLoop(st, Tail(events))
             ELSE ProtestsLoop(
                    St(Push(st.cdm, code, "protests", e),
                       trackHotspotActivity(st.ham, e.pt,
                                            IF e.severity = "high" THEN 8 ELSE 4)),
                    Tail(events))

RECURSIVE ConflictsLoop(_, _)
ConflictsLoop(st, events) ==
    IF events = << >> THEN st
    ELSE LET e == Head(events)
             code == normalizeCountryName(e.country)
         IN  IF code = << >> \/ ~InTier1(code) THEN ConflictsLoop(st, Tail(events))
             ELSE ConflictsLoop(
                    St(Push(st.cdm, code, "conflicts", e),
                       trackHotspotActivity(st.ham, e.pt,
                                            IF e.fatalities > 0 THEN 12 ELSE 8)),
                    Tail(events))

\* A code-keyed Map given as the sequence of its [code, value] entries.
RECURSIVE UcdpLoop(_, _)
UcdpLoop(cdm, classifications) ==
    IF classifications = << >> THEN cdm
    ELSE LET c == Head(classifications)
         IN  IF ~InTier1(c.code) THEN UcdpLoop(cdm, Tail(classifications))
             ELSE UcdpLoop(SetField(cdm, c.code, "ucdpStatus", << c.status >>),
                           Tail(classifications))

RECURSIVE HapiLoop(_, _)
HapiLoop(cdm, summaries) ==
    IF summaries = << >> THEN cdm
    ELSE LET c == Head(summaries)
         IN  IF ~InTier1(c.code) THEN HapiLoop(cdm, Tail(summaries))
             ELSE HapiLoop(SetField(cdm, c.code, "hapiSummary", << c.summary >>),
                           Tail(summaries))

\* ISO3_TO_ISO2[code]
ISO3_TO_ISO2(code) ==
    CASE code = <<"I", "D", "N">> -> <<"I", "D">>
      [] code = <<"A", "F", "G">> -> <<"A", "F">>
      [] code = <<"S", "Y", "R">> -> <<"S", "Y">>
      [] code = <<"U", "K", "R">> -> <<"U", "A">>
      [] code = <<"S", "D", "N">> -> <<"S", "D">>
      [] code = <<"S", "S", "D">> -> <<"S", "S">>
      [] code = <<"S", "O", "M">> -> <<"S", "O">>
      [] code = <<"C", "O", "D">> -> <<"C", "D">>
      [] code = <<"M", "M", "R">> -> <<"M", "M">>
      [] code = <<"Y", "E", "M">> -> <<"Y", "E">>
      [] code = <<"E", "T", "H">> -> <<"E", "T">>
      [] code = <<"V", "E", "N">> -> <<"V", "E">>
      [] code = <<"I", "R", "Q">> -> <<"I", "Q">>
      [] code = <<"C", "O", "L">> -> <<"C", "O">>
      [] code = <<"N", "G", "A">> -> <<"N", "G">>
      [] code = <<"P", "S", "E">> -> <<"P", "S">>
      [] code = <<"T", "U", "R">> -> <<"T", "R">>
      [] code = <<"P", "A", "K">> -> <<"P", "K">>
      [] code = <<"I", "R", "N">> -> <<"I", "R">>
      [] code = <<"I", "N", "D">> -> <<"I", "N">>
      [] code = <<"C", "H", "N">> -> <<"C", "N">>
      [] code = <<"R", "U", "S">> -> <<"R", "U">>
      [] code = <<"I", "S", "R">> -> <<"I", "L">>
      [] code = <<"S", "A", "U">> -> <<"S", "A">>
      [] code = <<"U", "S", "A">> -> <<"U", "S">>
      [] code = <<"T", "W", "N">> -> <<"T", "W">>
      [] code = <<"P", "R", "K">> -> <<"K", "P">>
      [] code = <<"P", "O", "L">> -> <<"P", "L">>
      [] code = <<"D", "E", "U">> -> <<"D", "E">>
      [] code = <<"F", "R", "A">> -> <<"F", "R">>
      [] code = <<"G", "B", "R">> -> <<"G", "B">>
      [] OTHER -> << >>

\* COUNTRY_NAME_TO_ISO[name]
COUNTRY_NAME_TO_ISO(name) ==
    CASE name = <<"I", "n", "d", "o", "n", "e", "s", "i", "a">> -> <<"I", "D">>
      [] name = <<"A", "f", "g", "h", "a", "n", "i", "s", "t", "a", "n">> -> <<"A", "F">>
      [] name = <<"S", "y", "r", "i", "a">> -> <<"S", "Y">>
      [] name = <<"U", "k", "r", "a", "i", "n", "e">> -> <<"U", "A">>
      [] name = <<"S", "u", "d", "a", "n">> -> <<"S", "D">>
      [] name = <<"S", "o", "u", "t", "h", " ", "S", "u", "d", "a", "n">> -> <<"S", "S">>
      [] name = <<"S", "o", "m", "a", "l", "i", "a">> -> <<"S", "O">>
      [] name = <<"D", "R", " ", "C", "o", "n", "g", "o">> -> <<"C", "D">>
      [] name = <<"M", "y", "a", "n", "m", "a", "r">> -> <<"M", "M">>
      [] name = <<"Y", "e", "m", "e", "n">> -> <<"Y", "E">>
      [] name = <<"E", "t", "h", "i", "o", "p", "i", "a">> -> <<"E", "T">>
      [] name = <<"V", "e", "n", "e", "z", "u", "e", "l", "a">> -> <<"V", "E">>
      [] name = <<"I", "r", "a", "q">> -> <<"I", "Q">>
      [] name = <<"C", "o", "l", "o", "m", "b", "i", "a">> -> <<"C", "O">>
      [] name = <<"N", "i", "g", "e", "r", "i", "a">> -> <<"N", "G">>
      [] name = <<"P", "a", "l", "e", "s", "t", "i", "n", "e">> -> <<"P", "S">>
      [] name = <<"T", "u", "r", "k", "e", "y">> -> <<"T", "R">>
      [] name = <<"P", "a", "k", "i", "s", "t", "a", "n">> -> <<"P", "K">>
      [] name = <<"I", "r", "a", "n">> -> <<"I", "R">>
      [] name = <<"I", "n", "d", "i", "a">> -> <<"I", "N">>
      [] name = <<"C", "h", "i", "n", "a">> -> <<"C", "N">>
      [] name = <<"R", "u", "s", "s", "i", "a">> -> <<"R", "U">>
      [] name = <<"I", "s", "r", "a", "e", "l">> -> <<"I", "L">>
      [] name = <<"S", "a", "u", "d", "i", " ", "A", "r", "a", "b", "i", "a">> -> <<"S", "A">>
      [] name \in ObjectPrototypeKeys -> nativeFunctionText
      [] OTHER -> << >>

\* c.code?.length === 3 ? ISO3_TO_ISO2[c.code] || c.code.substring(0, 2)
\*                     : COUNTRY_NAME_TO_ISO[c.name] || c.code
DisplacementCode(c) ==
    IF Len(c.code) = 3
    THEN IF ISO3_TO_ISO2(c.code) # << >> THEN ISO3_TO_ISO2(c.code)
         ELSE substring0(c.code, 2)
    ELSE IF COUNTRY_NAME_TO_ISO(c.name) # << >> THEN COUNTRY_NAME_TO_ISO(c.name)
         ELSE c.code

\* A variant of ResetField that resets the whole record; C18_OwnFieldsOnly
\* tells the two apart.
ResetRecord(cdm, field) == [k \in DOMAIN cdm |-> initCountryData]

ResetField(cdm, field) == [k \in DOMAIN cdm |-> [cdm[k] EXCEPT ![field] = 0]]

RECURSIVE DisplacementLoop(_, _)
DisplacementLoop(cdm, countries) ==
    IF countries = << >> THEN cdm
    ELSE LET c == Head(countries)
             code == DisplacementCode(c)
         IN  IF code = << >> \/ ~InTier1(code) THEN DisplacementLoop(cdm, Tail(countries))
             ELSE DisplacementLoop(
                    SetField(cdm, code, "displacementOutflow", c.refugees + c.asylumSeekers),
                    Tail(countries))

\* ZONE_COUNTRY_MAP[a.zone] || []
ZONE_COUNTRY_MAP(zone) ==
    CASE zone = "Ukraine" -> << UA >>
      [] zone = "Middle East" -> << <<"I", "R">>, <<"I", "L">>, <<"S", "A">>,
                                    <<"S", "Y">>, <<"Y", "E">> >>
      [] zone = "South Asia" -> << <<"P", "K">>, <<"I", "N">> >>
      [] zone = "Myanmar" -> << <<"M", "M">> >>
      [] OTHER -> << >>

\* A variant of ClimateCodes that stores the stress of a mapped zone in every
\* record, whatever countries the zone is mapped to; C16_ClimateStress tells
\* the two apart.
ClimateCodesStored(cdm, codes, stress) ==
    IF codes = << >> THEN cdm
    ELSE [k \in DOMAIN cdm |->
            [cdm[k] EXCEPT !["climateStress"] = Max(cdm[k].climateStress, stress)]]

RECURSIVE ClimateCodes(_, _, _)
ClimateCodes(cdm, codes, stress) ==
    IF codes = << >> THEN cdm
    ELSE LET code == Head(codes)
         IN  IF ~InTier1(code) THEN ClimateCodes(cdm, Tail(codes), stress)
             ELSE LET m == Ensure(cdm, code)
                  IN  ClimateCodes(
                        SetField(m, code, "climateStress", Max(m[code].climateStress, stress)),
                        Tail(codes), stress)

RECURSIVE ClimateLoop(_, _)
ClimateLoop(cdm, anomalies) ==
    IF anomalies = << >> THEN cdm
    ELSE LET a == Head(anomalies)
         IN  IF a.severity = "normal" THEN ClimateLoop(cdm, Tail(anomalies))
             ELSE ClimateLoop(
                    ClimateCodes(cdm, ZONE_COUNTRY_MAP(a.zone),
                                 IF a.severity = "extreme" THEN 15 ELSE 8),
                    Tail(anomalies))

\* {} as MilitaryFlight / {} as MilitaryVessel
Placeholder == [placeholder |-> TRUE]

\* foreignMilitaryByCountry: code -> [flights, vessels]
ForeignCount(fm, code, kind) ==
    LET cur == IF MapHas(fm, code) THEN fm[code] ELSE [flights |-> 0, vessels |-> 0]
    IN  MapSet(fm, code, [cur EXCEPT ![kind] = @ + 1])

\* One pass over the flights (kind "flights", list "militaryFlights", weight
\* 1.5) or over the vessels (kind "vessels", list "militaryVessels", weight 2);
\* ms is [cdm, ham, fm].
RECURSIVE MilitaryLoop(_, _, _, _, _)
MilitaryLoop(ms, items, kind, field, w) ==
    IF items = << >> THEN ms
    ELSE LET f == Head(items)
             operatorCode == normalizeCountryName(f.operatorCountry)
             cdm1 == IF operatorCode # << >> /\ InTier1(operatorCode)
                     THEN Push(ms.cdm, operatorCode, field, f) ELSE ms.cdm
             locationCode == getCountryFromLocation(f.pt)
             fm1 == IF /\ locationCode # << >> /\ InTier1(locationCode)
                       /\ locationCode # operatorCode
                    THEN ForeignCount(ms.fm, locationCode, kind) ELSE ms.fm
         IN  MilitaryLoop([cdm |-> cdm1, ham |-> trackHotspotActivity(ms.ham, f.pt, w),
                           fm |-> fm1],
                          Tail(items), kind, field, w)

\* A variant of PushN that stores one placeholder where PushN stores two;
\* C12_MilitaryGrowth tells the two apart.
RECURSIVE PushHalf(_, _, _, _)
PushHalf(cdm, code, field, n) ==
    IF n < 2 THEN cdm
    ELSE PushHalf(Push(cdm, code, field, Placeholder), code, field, n - 2)

RECURSIVE PushN(_, _, _, _)
PushN(cdm, code, field, n) ==
    IF n = 0 THEN cdm ELSE PushN(Push(cdm, code, field, Placeholder), code, field, n - 1)

RECURSIVE ForeignLoop(_, _, _)
ForeignLoop(cdm, fm, codes) ==
    IF codes = {} THEN cdm
    ELSE LET code == CHOOSE c \in codes : TRUE
             withFlights == PushN(Ensure(cdm, code), code, "militaryFlights",
                                  fm[code].flights * 2)
         IN  ForeignLoop(PushN(withFlights, code, "militaryVessels", fm[code].vessels * 2),
                         fm, codes \ {code})

\* The last loop of ingestMilitaryForCII, over foreignMilitaryByCountry
ForeignStored(ms) == St(ForeignLoop(ms.cdm, ms.fm, DOMAIN ms.fm), ms.ham)

MilitaryResult(st, flights, vessels) ==
    ForeignStored(
        MilitaryLoop(MilitaryLoop([cdm |-> st.cdm, ham |-> st.ham, fm |-> EmptyMap],
                                  flights, "flights", "militaryFlights", 6),
                     vessels, "vessels", "militaryVessels", 8))

RECURSIVE NewsCodes(_, _, _)
NewsCodes(cdm, entries, e) ==
    IF entries = << >> THEN cdm
    ELSE LET code == Head(entries).code
         IN  NewsCodes(IF KeywordHit(code, e.primaryTitle)
                       THEN Push(cdm, code, "newsEvents", e) ELSE cdm,
                       Tail(entries), e)

RECURSIVE NewsLoop(_, _)
NewsLoop(cdm, events) ==
    IF events = << >> THEN cdm
    ELSE NewsLoop(NewsCodes(cdm, TIER1_COUNTRIES, Head(events)), Tail(events))

RECURSIVE OutagesLoop(_, _)
OutagesLoop(cdm, outages) ==
    IF outages = << >> THEN cdm
    ELSE LET o == Head(outages)
             code == normalizeCountryName(o.country)
         IN  IF code = << >> \/ ~InTier1(code) THEN OutagesLoop(cdm, Tail(outages))
             ELSE OutagesLoop(Push(cdm, code, "outages", o), Tail(outages))


(***************************************************************************)
(* Component scorers (fixed point; multiplier m in tenths)                 *)
(***************************************************************************)
\* list.filter(x => x.<field> is one of values).length
CountOf(list, field, values) ==
    Cardinality({i \in 1..Len(list) : list[i][field] \in values})

\* floor(sqrt(n)): bisection between lo and hi
RECURSIVE ISqrtBetween(_, _, _)
ISqrtBetween(n, lo, hi) ==
    IF lo >= hi THEN lo
    ELSE LET mid == (lo + hi + 1) \div 2
         IN  IF mid * mid <= n THEN ISqrtBetween(n, mid, hi)
             ELSE ISqrtBetween(n, lo, mid - 1)

\* Math.sqrt(n) for a whole n, fixed point
MathSqrt(n) == ISqrtBetween(n * K * K, 0, 46340)

\* Math.log2(n) for a whole n >= 1, fixed point (used only below the 0.7
\* multiplier, which no entry of EVENT_MULTIPLIER has)
MathLog2(n) ==
    CASE n = 1 -> 0 [] n = 2 -> K [] n = 3 -> 15849 [] n = 4 -> 2 * K
      [] n = 5 -> 23219 [] n = 6 -> 25849 [] n = 7 -> 28073 [] OTHER -> 3 * K

calcUnrestScore(data, countryCode) ==
    LET protestCount == Len(data.protests)
        m == EventMultiplier(countryCode)
        fatalities == SumSeq([i \in 1..protestCount |-> data.protests[i].fatalities])
        highSeverity == CountOf(data.protests, "severity", {"high"})
        isHighVolume == m < 7
        adjustedCount == IF isHighVolume
                         THEN (MathLog2(protestCount + 1) * m * 5) \div 10
                         ELSE (protestCount * m * K) \div 10
        baseScore == IF protestCount > 0 THEN Min(50 * K, adjustedCount * 8) ELSE 0
        fatalityBoost == IF protestCount > 0
                         THEN Min(30 * K, (fatalities * 5 * m * K) \div 10) ELSE 0
        severityBoost == IF protestCount > 0
                         THEN Min(20 * K, (highSeverity * 10 * m * K) \div 10) ELSE 0
        totalOutages == CountOf(data.outages, "severity", {"total"})
        majorOutages == CountOf(data.outages, "severity", {"major"})
        partialOutages == CountOf(data.outages, "severity", {"partial"})
        outageBoost == IF Len(data.outages) > 0
                       THEN Min(50 * K, (totalOutages * 30 + majorOutages * 15
                                         + partialOutages * 5) * K)
                       ELSE 0
    IN  Min(100 * K, baseScore + fatalityBoost + severityBoost + outageBoost)

\* A variant of calcConflictScore whose summary fallback also counts beside
\* conflict events; C17_ConflictScore tells the two apart.
calcConflictScoreWithFallback(data, countryCode) ==
    LET events == data.conflicts
        m == EventMultiplier(countryCode)
        battleCount == CountOf(events, "eventType", {"battle"})
        explosionCount == CountOf(events, "eventType", {"explosion", "remote_violence"})
        civilianCount == CountOf(events, "eventType",
                                {"violence_against_civilians"})
        totalFatalities == SumSeq([i \in 1..Len(events) |-> events[i].fatalities])
        eventScore == Min(50 * K, ((battleCount * 3 + explosionCount * 4 + civilianCount * 5)
                                   * m * K) \div 10)
        fatalityScore == Min(40 * K, (MathSqrt(totalFatalities) * 5 * m) \div 10)
        civilianBoost == IF civilianCount > 0 THEN Min(10 * K, civilianCount * 3 * K) ELSE 0
        hapiFallback ==
            IF data.hapiSummary # << >>
            THEN LET h == data.hapiSummary[1]
                 IN  Min(60 * K, ((h.eventsPoliticalViolence * 2
                                   + h.eventsCivilianTargeting * 3) * m * K) \div 10)
            ELSE 0
    IN  IF Len(events) = 0 /\ data.hapiSummary = << >> THEN 0
        ELSE Min(100 * K, Max(eventScore + fatalityScore + civilianBoost, hapiFallback))

calcConflictScore(data, countryCode) ==
    LET events == data.conflicts
        m == EventMultiplier(countryCode)
        battleCount == CountOf(events, "eventType", {"battle"})
        explosionCount == CountOf(events, "eventType", {"explosion", "remote_violence"})
        civilianCount == CountOf(events, "eventType",
                                {"violence_against_civilians"})
        totalFatalities == SumSeq([i \in 1..Len(events) |-> events[i].fatalities])
        eventScore == Min(50 * K, ((battleCount * 3 + explosionCount * 4 + civilianCount * 5)
                                   * m * K) \div 10)
        fatalityScore == Min(40 * K, (MathSqrt(totalFatalities) * 5 * m) \div 10)
        civilianBoost == IF civilianCount > 0 THEN Min(10 * K, civilianCount * 3 * K) ELSE 0
        hapiFallback ==
            IF Len(events) = 0 /\ data.hapiSummary # << >>
            THEN LET h == data.hapiSummary[1]
                 IN  Min(60 * K, ((h.eventsPoliticalViolence * 2
                                   + h.eventsCivilianTargeting * 3) * m * K) \div 10)
            ELSE 0
    IN  IF Len(events) = 0 /\ data.hapiSummary = << >> THEN 0
        ELSE Min(100 * K, Max(eventScore + fatalityScore + civilianBoost, hapiFallback))

\* A variant of getUcdpFloor that gives an unclassified country the floor of a
\* minor conflict; C9_BaselineOnly tells the two apart.
getUcdpFloorUnclassified(data) ==
    IF data.ucdpStatus = << >> THEN 50 * K
    ELSE LET intensity == data.ucdpStatus[1].intensity
         IN  CASE intensity = "war" -> 70 * K
               [] intensity = "minor" -> 50 * K
               [] intensity = "none" -> 0
               [] OTHER -> NaN

\* undefined, where no case of the switch matches, is NaN once used as a number
getUcdpFloor(data) ==
    IF data.ucdpStatus = << >> THEN 0
    ELSE LET intensity == data.ucdpStatus[1].intensity
         IN  CASE intensity = "war" -> 70 * K
               [] intensity = "minor" -> 50 * K
               [] intensity = "none" -> 0
               [] OTHER -> NaN

calcSecurityScore(data) ==
    LET flights == Len(data.militaryFlights)
        vessels == Len(data.militaryVessels)
        flightScore == Min(50 * K, flights * 3 * K)
        vesselScore == Min(30 * K, vessels * 5 * K)
    IN  Min(100 * K, flightScore + vesselScore)

calcInformationScore(data, countryCode) ==
    LET count == Len(data.newsEvents)
        m == EventMultiplier(countryCode)
        velocitySum == SumSeq([i \in 1..count |-> data.newsEvents[i].sourcesPerHour])
        avgVelocity == (velocitySum * K) \div count
        isHighVolume == m < 7
        adjustedCount == IF isHighVolume
                         THEN (MathLog2(count + 1) * m * 3) \div 10
                         ELSE (count * m * K) \div 10
        baseScore == Min(40 * K, adjustedCount * 5)
        velocityThreshold == IF isHighVolume THEN 5 * K ELSE 2 * K
        velocityBoost == IF avgVelocity > velocityThreshold
                         THEN Min(40 * K, (avgVelocity - velocityThreshold) * m)
                         ELSE 0
        alertBoost == IF \E i \in 1..count : data.newsEvents[i].isAlert
                      THEN 2 * m * K ELSE 0
    IN  IF count = 0 THEN 0
        ELSE Min(100 * K, baseScore + velocityBoost + alertBoost)

getLevel(score) ==
    IF score = NaN THEN "low"
    ELSE IF score >= 81 THEN "critical"
    ELSE IF score >= 66 THEN "high"
    ELSE IF score >= 51 THEN "elevated"
    ELSE IF score >= 31 THEN "normal"
    ELSE "low"

\* a - b on numbers either of which may be NaN
Minus(a, b) == IF a = NaN \/ b = NaN THEN NaN ELSE a - b

getTrend(prevScores, code, current) ==
    IF ~MapHas(prevScores, code) THEN "stable"
    ELSE LET diff == Minus(current, prevScores[code])
         IN  IF diff = NaN THEN "stable"
             ELSE IF diff >= 5 THEN "rising"
             ELSE IF diff <= -5 THEN "falling"
             ELSE "stable"

(***************************************************************************)
(* Composite score                                                         *)
(***************************************************************************)
\* focalUrgencies.get(code) / focalPointDetector.getCountryUrgency(code)
FocalOf(focal, code) == IF MapHas(focal, code) THEN focal[code] ELSE "undefined"

\* The score from the four components c (fixed point), as both scoring
\* functions compute it from eventScore on.
Blend(code, data, c, ham, focal) ==
    LET baselineRisk == BaselineRisk(code)
        eventScore6 == (15 * c.unrest + 18 * c.conflict + 12 * c.security
                        + 15 * c.information) \div 100
        hotspotBoost == getHotspotBoost(ham, code)
        newsUrgencyBoost == IF c.information >= 70 * K THEN 5 * K
                            ELSE IF c.information >= 50 * K THEN 3 * K ELSE 0
        focalUrgency_ == FocalOf(focal, code)
        focalBoost == IF focalUrgency_ = "critical" THEN 8 * K
                      ELSE IF focalUrgency_ = "elevated" THEN 4 * K ELSE 0
        displacementBoost == IF data.displacementOutflow >= 1000000 THEN 8 * K
                             ELSE IF data.displacementOutflow >= 100000 THEN 4 * K ELSE 0
        climateBoost == data.climateStress * K
        blendedScore == (baselineRisk * 4) \div 10 + eventScore6 + hotspotBoost
                        + newsUrgencyBoost + focalBoost + displacementBoost + climateBoost
        floor == getUcdpFloor(data)
    IN  IF baselineRisk = NaN \/ floor = NaN THEN NaN
        ELSE MathRound(Min(100 * K, Max(floor, blendedScore)))

Components(data, code) ==
    [unrest |-> calcUnrestScore(data, code),
     conflict |-> calcConflictScore(data, code),
     security |-> calcSecurityScore(data),
     information |-> calcInformationScore(data, code)]

\* Math.round of each component, as calculateCII stores them
Rounded(c) ==
    [unrest |-> MathRound(c.unrest), conflict |-> MathRound(c.conflict),
     security |-> MathRound(c.security), information |-> MathRound(c.information)]

RoundedComponents(data, code) == Rounded(Components(data, code))

Scaled(c) == [unrest |-> c.unrest * K, conflict |-> c.conflict * K,
              security |-> c.security * K, information |-> c.information * K]

\* The CountryScore calculateCII pushes for one whitelist entry, from its
\* rounded components and its score.
ScoreEntry(entry, components, score, prevScores, time) ==
    [code |-> entry.code, name |-> entry.name, score |-> score, level |-> getLevel(score),
     trend |-> getTrend(prevScores, entry.code, score),
     change24h |-> Minus(score, IF MapHas(prevScores, entry.code)
                                THEN prevScores[entry.code] ELSE score),
     components |-> components, lastUpdated |-> time]

ScoredEntry(entry, data, components, ham, focal, prevScores, time) ==
    ScoreEntry(entry, components, Blend(entry.code, data, Scaled(components), ham, focal),
               prevScores, time)

CountryScoreOf(entry, cdm, ham, focal, prevScores, time) ==
    ScoredEntry(entry, IF MapHas(cdm, entry.code) THEN cdm[entry.code] ELSE initCountryData,
                RoundedComponents(IF MapHas(cdm, entry.code) THEN cdm[entry.code]
                                  ELSE initCountryData, entry.code),
                ham, focal, prevScores, time)

\* scores.push(..); previousScores.set(code, score)
Pushed(acc, cs) ==
    [scores |-> Append(acc.scores, cs), prev |-> MapSet(acc.prev, cs.code, cs.score)]

\* The for loop of calculateCII over the entries: [scores, prev]
RECURSIVE CIILoop(_, _, _, _, _, _)
CIILoop(acc, entries, cdm, ham, focal, time) ==
    IF entries = << >> THEN acc
    ELSE CIILoop(Pushed(acc, CountryScoreOf(Head(entries), cdm, ham, focal, acc.prev, time)),
                 Tail(entries), cdm, ham, focal, time)

\* Array.prototype.sort((a, b) => b.score - a.score): stable, by insertion
RECURSIVE InsertByScore(_, _)
InsertByScore(sorted, x) ==
    IF sorted = << >> THEN << x >>
    ELSE LET d == Minus(x.score, sorted[Len(sorted)].score)
         IN  IF d = NaN \/ d <= 0 THEN Append(sorted, x)
             ELSE Append(InsertByScore(SubSeq(sorted, 1, Len(sorted) - 1), x),
                         sorted[Len(sorted)])

RECURSIVE SortByScore(_)
SortByScore(scores) ==
    IF scores = << >> THEN << >>
    ELSE InsertByScore(SortByScore(SubSeq(scores, 1, Len(scores) - 1)), scores[Len(scores)])

\* A variant of slice0 that stops one entry late; C13_OnePerCountryRanked
\* tells the two apart.
sliceInclusive(list, limit) == SubSeq(list, 1, Min(limit + 1, Len(list)))

\* Array.prototype.slice(0, limit)
slice0(list, limit) ==
    LET end == IF limit < 0 THEN Max(Len(list) + limit, 0) ELSE Min(limit, Len(list))
    IN  SubSeq(list, 1, end)

Sorted(r) == [scores |-> SortByScore(r.scores), prev |-> r.prev]

CIIResult(cdm, ham, focal, prevScores, time) ==
    Sorted(CIILoop([scores |-> << >>, prev |-> prevScores], TIER1_COUNTRIES,
                   cdm, ham, focal, time))

\* getCountryScore(code): << >> for null
CountryScoreValue(code, cdm, ham, focal) ==
    IF ~MapHas(cdm, code) THEN << >>
    ELSE << Blend(code, cdm[code], Components(cdm[code], code), ham, focal) >>


(***************************************************************************)
(* Learning mode                                                           *)
(***************************************************************************)
\* A variant of InLearningMode that ends the window only after more than the
\* duration has passed; C22_SameAnswer tells the two apart.
InLearningModeStrict(cached, complete, start, time) ==
    IF cached THEN [value |-> FALSE, complete |-> complete]
    ELSE IF complete THEN [value |-> FALSE, complete |-> complete]
    ELSE IF start = << >> THEN [value |-> TRUE, complete |-> complete]
    ELSE IF time - start[1] > LEARNING_DURATION_MS
         THEN [value |-> FALSE, complete |-> TRUE]
         ELSE [value |-> TRUE, complete |-> complete]

\* What isInLearningMode returns, and the isLearningComplete it leaves.
InLearningMode(cached, complete, start, time) ==
    IF cached THEN [value |-> FALSE, complete |-> complete]
    ELSE IF complete THEN [value |-> FALSE, complete |-> complete]
    ELSE IF start = << >> THEN [value |-> TRUE, complete |-> complete]
    ELSE IF time - start[1] >= LEARNING_DURATION_MS
         THEN [value |-> FALSE, complete |-> TRUE]
         ELSE [value |-> TRUE, complete |-> complete]

LearningProgress(cached, complete, start, time) ==
    IF cached \/ complete
    THEN [inLearning |-> FALSE, remainingMinutes |-> 0, progress |-> 100]
    ELSE IF start = << >>
    THEN [inLearning |-> TRUE, remainingMinutes |-> 15, progress |-> 0]
    ELSE LET elapsed == time - start[1]
             remaining == Max(0, LEARNING_DURATION_MS - elapsed)
             progress == Min(100 * K, (elapsed * 100) \div (LEARNING_DURATION_MS \div K))
         IN  [inLearning |-> remaining > 0,
              remainingMinutes |-> CeilMinutes(remaining),
              progress |-> MathRound(progress)]

(***************************************************************************)
(* State                                                                   *)
(***************************************************************************)
Init ==
    /\ countryDataMap = EmptyMap
    /\ hotspotActivityMap = EmptyMap
    /\ previousScores = EmptyMap
    /\ learningStartTime = << >>
    /\ isLearningComplete = FALSE
    /\ hasCachedScoresAvailable = FALSE
    /\ now = 0
    /\ focalUrgency = EmptyMap

(***************************************************************************)
(* Bounds of the exploration                                               *)
(***************************************************************************)
MaxFacts == 3
MaxActivity == 28
MaxScoreFacts == 2
MaxNow == 1200000

ListFields == {"protests", "conflicts", "militaryFlights", "militaryVessels",
               "newsEvents", "outages"}

\* The pieces of data a record holds: its list entries and its set scalars.
ListLengths(d) ==
    Len(d.protests) + Len(d.conflicts) + Len(d.militaryFlights)
    + Len(d.militaryVessels) + Len(d.newsEvents) + Len(d.outages)

Facts(d) ==
    ListLengths(d) + Len(d.ucdpStatus) + Len(d.hapiSummary)
    + (IF d.displacementOutflow # 0 THEN 1 ELSE 0)
    + (IF d.climateStress # 0 THEN 1 ELSE 0)

RECURSIVE EntriesOf(_, _)
EntriesOf(cdm, keys) ==
    IF keys = {} THEN 0
    ELSE LET k == CHOOSE x \in keys : TRUE
         IN  Facts(cdm[k]) + EntriesOf(cdm, keys \ {k})

Entries(cdm) == EntriesOf(cdm, DOMAIN cdm)

Within(st) ==
    /\ Entries(st.cdm) <= MaxFacts
    /\ \A k \in DOMAIN st.ham : st.ham[k] <= MaxActivity

(***************************************************************************)
(* Operations.  What a call returns is a function of the state it is made  *)
(* in: InLearningMode(..).value, LearningProgress(..), CIIResult(..).scores*)
(* and CountryScoreValue(..) below.                                        *)
(***************************************************************************)
\* A variant of setHasCachedScores that does not latch isLearningComplete;
\* C3_NeverReverts tells the two apart.
setHasCachedScoresUnlatched(hasScores) ==
    /\ hasCachedScoresAvailable' = hasScores
    /\ UNCHANGED << dataVars, previousScores, learningStartTime, isLearningComplete,
                    now, focalUrgency >>

setHasCachedScores(hasScores) ==
    /\ hasCachedScoresAvailable' = hasScores
    /\ isLearningComplete' = IF hasScores THEN TRUE ELSE isLearningComplete
    /\ UNCHANGED << dataVars, previousScores, learningStartTime, now, focalUrgency >>

\* A variant of startLearning that restarts the window on every call;
\* C4_Warmup tells the two apart.
startLearningAgain ==
    /\ learningStartTime' = << now >>
    /\ UNCHANGED << dataVars, previousScores, isLearningComplete,
                    hasCachedScoresAvailable, now, focalUrgency >>

startLearning ==
    /\ learningStartTime' = IF learningStartTime = << >> THEN << now >>
                            ELSE learningStartTime
    /\ UNCHANGED << dataVars, previousScores, isLearningComplete,
                    hasCachedScoresAvailable, now, focalUrgency >>

isInLearningMode ==
    /\ isLearningComplete' = InLearningMode(hasCachedScoresAvailable, isLearningComplete,
                                            learningStartTime, now).complete
    /\ UNCHANGED << dataVars, previousScores, learningStartTime,
                    hasCachedScoresAvailable, now, focalUrgency >>

getLearningProgress == UNCHANGED vars

\* A variant of clearCountryData that forgets the recorded scores as well;
\* C23_ClearKeepsScores tells the two apart.
clearCountryDataAndScores ==
    /\ countryDataMap' = EmptyMap
    /\ hotspotActivityMap' = EmptyMap
    /\ previousScores' = EmptyMap
    /\ UNCHANGED << learnVars, now, focalUrgency >>

\* A variant of clearCountryData that leaves the hotspot activity in place;
\* C8_OnlyClearRemoves tells the two apart.
clearCountryDataOnly ==
    /\ countryDataMap' = EmptyMap
    /\ UNCHANGED << hotspotActivityMap, previousScores, learnVars, now, focalUrgency >>

clearCountryData ==
    /\ countryDataMap' = EmptyMap
    /\ hotspotActivityMap' = EmptyMap
    /\ UNCHANGED << previousScores, learnVars, now, focalUrgency >>

\* The frame of every ingestion function: the two maps become st, which the
\* exploration keeps within its bounds.
Ingested(st) ==
    /\ UNCHANGED << previousScores, learnVars, now, focalUrgency >>
    /\ Within(st)
    /\ countryDataMap' = st.cdm
    /\ hotspotActivityMap' = st.ham

Here == St(countryDataMap, hotspotActivityMap)

ProtestsResult(events) == ProtestsLoop(Here, events)
ConflictsResult(events) == ConflictsLoop(Here, events)
UcdpResult(classifications) == St(UcdpLoop(countryDataMap, classifications), hotspotActivityMap)
HapiResult(summaries) == St(HapiLoop(countryDataMap, summaries), hotspotActivityMap)
DisplacementResult(countries) ==
    St(DisplacementLoop(ResetField(countryDataMap, "displacementOutflow"), countries),
       hotspotActivityMap)
ClimateResult(anomalies) ==
    St(ClimateLoop(ResetField(countryDataMap, "climateStress"), anomalies),
       hotspotActivityMap)
NewsResult(events) == St(NewsLoop(countryDataMap, events), hotspotActivityMap)
OutagesResult(outages) == St(OutagesLoop(countryDataMap, outages), hotspotActivityMap)

ingestProtestsForCII(events) == Ingested(ProtestsResult(events))
ingestConflictsForCII(events) == Ingested(ConflictsResult(events))
ingestUcdpForCII(classifications) == Ingested(UcdpResult(classifications))
ingestHapiForCII(summaries) == Ingested(HapiResult(summaries))
ingestDisplacementForCII(countries) == Ingested(DisplacementResult(countries))
ingestClimateForCII(anomalies) == Ingested(ClimateResult(anomalies))
ingestMilitaryForCII(flights, vessels) == Ingested(MilitaryResult(Here, flights, vessels))
ingestNewsForCII(events) == Ingested(NewsResult(events))
ingestOutagesForCII(outages) == Ingested(OutagesResult(outages))

\* What calculateCII returns in this state, and the previous-scores it leaves.
CIINow == CIIResult(countryDataMap, hotspotActivityMap, focalUrgency, previousScores, now)

calculateCII ==
    /\ previousScores' = CIINow.prev
    /\ UNCHANGED << dataVars, learnVars, now, focalUrgency >>

\* calculateCII().slice(0, limit)
TopNow(limit) == slice0(CIINow.scores, limit)

getTopUnstableCountries(limit) ==
    /\ previousScores' = CIINow.prev
    /\ UNCHANGED << dataVars, learnVars, now, focalUrgency >>

\* What getCountryScore(code) returns in this state.
ScoreNow(code) == CountryScoreValue(code, countryDataMap, hotspotActivityMap, focalUrgency)

getCountryScore(code) == UNCHANGED vars

\* The clock moves on by d ms.
Tick(d) ==
    /\ now + d <= MaxNow
    /\ now' = now + d
    /\ UNCHANGED << dataVars, previousScores, learnVars, focalUrgency >>

\* The focal point detector, outside this module's code, reports an urgency.
FocalReport(code, urgency) ==
    /\ focalUrgency' = MapSet(focalUrgency, code, urgency)
    /\ UNCHANGED << dataVars, previousScores, learnVars, now >>

(***************************************************************************)
(* Inputs                                                                  *)
(***************************************************************************)
Protest(country, pt, severity, fatalities) ==
    [country |-> country, pt |-> pt, severity |-> severity, fatalities |-> fatalities]
Conflict(country, pt, eventType, fatalities) ==
    [country |-> country, pt |-> pt, eventType |-> eventType, fatalities |-> fatalities]
Classification(code, intensity) == [code |-> code, status |-> [intensity |-> intensity]]
Summary(code, pv, ct) ==
    [code |-> code,
     summary |-> [eventsPoliticalViolence |-> pv, eventsCivilianTargeting |-> ct]]
Displacement(code, name, refugees, asylumSeekers) ==
    [code |-> code, name |-> name, refugees |-> refugees, asylumSeekers |-> asylumSeekers]
Anomaly(zone, severity) == [zone |-> zone, severity |-> severity]
Military(operatorCountry, pt) == [operatorCountry |-> operatorCountry, pt |-> pt]
News(primaryTitle, sourcesPerHour, isAlert) ==
    [primaryTitle |-> primaryTitle, sourcesPerHour |-> sourcesPerHour, isAlert |-> isAlert]
Outage(country, severity) == [country |-> country, severity |-> severity]

ProtestBatches ==
    { << Protest(Indonesia, "jakarta", "high", 1) >>,
      << Protest(Bali, "penang", "medium", 0) >>,
      << Protest(Ukraine, "kyiv", "high", 0), Protest(JAKARTA, "kyiv", "medium", 0) >>,
      << Protest(Ukraine, "jakarta", "high", 2) >> }

ConflictBatches ==
    { << Conflict(Indonesia, "offAceh", "battle", 3) >>,
      << Conflict(JAKARTA, "jakarta", "violence_against_civilians", 0) >>,
      << Conflict(Bali, "hormuz", "explosion", 4),
         Conflict(Ukraine, "kyiv", "battle", 9) >> }

UcdpBatches ==
    { << Classification(ID, "war") >>,
      << Classification(ID, "minor") >>,
      << Classification(ID, "none") >>,
      << Classification(ID, "unclear") >>,
      << Classification(UA, "war") >>,
      << Classification(constructorKey, "war") >> }

HapiBatches ==
    { << Summary(ID, 10, 5) >>,
      << Summary(UA, 40, 40), Summary(ID, 40, 0) >>,
      << Summary(UA, 40, 40) >> }

DisplacementBatches ==
    { << Displacement(IDN, Indonesia, 999999, 1) >>,
      << Displacement(IDN, Indonesia, 99999, 0) >>,
      << Displacement(IDN, Indonesia, 99999, 1), Displacement(UKR, Ukraine, 5, 5) >>,
      << Displacement(UKR, Ukraine, 999999, 1) >>,
      << Displacement(IDX, << >>, 7, 0) >>,
      << Displacement(<< >>, Indonesia, 3, 0) >>,
      << Displacement(constructorKey, << >>, 2, 0) >>,
      << >> }

ClimateBatches ==
    { << Anomaly("Ukraine", "extreme") >>,
      << Anomaly("South Asia", "moderate"), Anomaly("Myanmar", "normal") >> }

MilitaryBatches ==
    { [flights |-> << Military(Indonesia, "jakarta") >>, vessels |-> << >>],
      [flights |-> << Military(Ukraine, "jakarta") >>, vessels |-> << >>],
      [flights |-> << Military(Indonesia, "kyiv"), Military(<< >>, "penang") >>,
       vessels |-> << >>],
      [flights |-> << Military(Ukraine, "offAceh") >>,
       vessels |-> << Military(Ukraine, "hormuz") >>],
      [flights |-> << >>, vessels |-> << Military(Indonesia, "penang") >>],
      [flights |-> << >>, vessels |-> << Military(Ukraine, "penang") >>] }

NewsBatches ==
    { << News(BaliRiot, 6, TRUE) >>,
      << News(JAKARTA, 0, FALSE) >>,
      << News(PeruVote, 6, TRUE) >> }

OutageBatches ==
    { << Outage(Indonesia, "total") >>,
      << Outage(Bali, "partial") >>,
      << Outage(Ukraine, "total"), Outage(JAKARTA, "major") >> }

\* The smaller batches under which the scoring calls are explored.
ScoreProtestBatches ==
    { << Protest(Bali, "penang", "medium", 0) >>,
      << Protest(Indonesia, "jakarta", "high", 1) >> }
ScoreConflictBatches ==
    { << Conflict(Indonesia, "offAceh", "violence_against_civilians", 3) >> }
ScoreUcdpBatches ==
    { << Classification(ID, "war") >>,
      << Classification(ID, "minor") >>,
      << Classification(ID, "unclear") >>,
      << Classification(constructorKey, "war") >> }
ScoreHapiBatches == { << Summary(ID, 10, 5) >> }
ScoreDisplacementBatches ==
    { << Displacement(IDN, Indonesia, 999999, 1) >>,
      << Displacement(IDN, Indonesia, 99999, 1) >>,
      << >> }
ScoreClimateBatches == { << Anomaly("Ukraine", "extreme") >> }
ScoreMilitaryBatches ==
    { [flights |-> << Military(Ukraine, "offAceh") >>, vessels |-> << >>],
      [flights |-> << Military(Ukraine, "jakarta") >>, vessels |-> << >>],
      [flights |-> << >>, vessels |-> << Military(Indonesia, "penang") >>] }
ScoreNewsBatches == { << News(BaliRiot, 6, TRUE) >> }
ScoreOutageBatches == { << Outage(Indonesia, "total") >> }

ScoreCodes == {ID, UA, constructorKey}
Limits == {0, 1, 2}
Urgencies == {"elevated", "critical"}
Deltas == {299999, 300000, 300001}

(***************************************************************************)
(* Specifications                                                          *)
(***************************************************************************)
IngestProtests(B) == \E b \in B : ingestProtestsForCII(b)
IngestConflicts(B) == \E b \in B : ingestConflictsForCII(b)
IngestUcdp(B) == \E b \in B : ingestUcdpForCII(b)
IngestHapi(B) == \E b \in B : ingestHapiForCII(b)
IngestDisplacement(B) == \E b \in B : ingestDisplacementForCII(b)
IngestClimate(B) == \E b \in B : ingestClimateForCII(b)
IngestMilitary(B) == \E b \in B : ingestMilitaryForCII(b.flights, b.vessels)
IngestNews(B) == \E b \in B : ingestNewsForCII(b)
IngestOutages(B) == \E b \in B : ingestOutagesForCII(b)
SetCached == \E b \in BOOLEAN : setHasCachedScores(b)
GetTop == \E n \in Limits : getTopUnstableCountries(n)
GetScore == \E c \in ScoreCodes : getCountryScore(c)
Focal == \E c \in Tier1Codes, u \in Urgencies : FocalReport(c, u)
Clock == \E d \in Deltas : Tick(d)

\* The ingestion functions on the full batches, and the clear.
NextIngest ==
    \/ IngestProtests(ProtestBatches)
    \/ IngestConflicts(ConflictBatches)
    \/ IngestUcdp(UcdpBatches)
    \/ IngestHapi(HapiBatches)
    \/ IngestDisplacement(DisplacementBatches)
    \/ IngestClimate(ClimateBatches)
    \/ IngestMilitary(MilitaryBatches)
    \/ IngestNews(NewsBatches)
    \/ IngestOutages(OutageBatches)
    \/ clearCountryData

\* The ingestion functions that attribute events by text and by position and
\* track positions against the hotspot registries, on the full batches, and
\* the clear.
NextTrack ==
    \/ IngestProtests(ProtestBatches)
    \/ IngestConflicts(ConflictBatches)
    \/ IngestMilitary(MilitaryBatches)
    \/ IngestOutages(OutageBatches)
    \/ clearCountryData

\* Every ingestion function on the smaller batches, the clear, the focal
\* point detector and the scoring calls.
ScoreBound == Entries(countryDataMap') <= MaxScoreFacts

NextScore ==
    \/ IngestProtests(ScoreProtestBatches) /\ ScoreBound
    \/ IngestConflicts(ScoreConflictBatches) /\ ScoreBound
    \/ IngestUcdp(ScoreUcdpBatches) /\ ScoreBound
    \/ IngestHapi(ScoreHapiBatches) /\ ScoreBound
    \/ IngestDisplacement(ScoreDisplacementBatches) /\ ScoreBound
    \/ IngestClimate(ScoreClimateBatches) /\ ScoreBound
    \/ IngestMilitary(ScoreMilitaryBatches) /\ ScoreBound
    \/ IngestNews(ScoreNewsBatches) /\ ScoreBound
    \/ IngestOutages(ScoreOutageBatches) /\ ScoreBound
    \/ clearCountryData
    \/ Focal
    \/ calculateCII
    \/ GetTop
    \/ GetScore

\* Every ingestion function on the smaller batches, the clear and the scoring
\* calls; the focal point detector reports nothing.
NextLists ==
    \/ IngestProtests(ScoreProtestBatches) /\ ScoreBound
    \/ IngestConflicts(ScoreConflictBatches) /\ ScoreBound
    \/ IngestUcdp(ScoreUcdpBatches) /\ ScoreBound
    \/ IngestHapi(ScoreHapiBatches) /\ ScoreBound
    \/ IngestDisplacement(ScoreDisplacementBatches) /\ ScoreBound
    \/ IngestClimate(ScoreClimateBatches) /\ ScoreBound
    \/ IngestMilitary(ScoreMilitaryBatches) /\ ScoreBound
    \/ IngestNews(ScoreNewsBatches) /\ ScoreBound
    \/ IngestOutages(ScoreOutageBatches) /\ ScoreBound
    \/ clearCountryData
    \/ calculateCII
    \/ GetTop
    \/ GetScore

\* The learning-mode calls and the clock, with a clear, an ingestion and a
\* scoring call between them.
NextLearn ==
    \/ SetCached
    \/ startLearning
    \/ isInLearningMode
    \/ getLearningProgress
    \/ Clock
    \/ clearCountryData
    \/ IngestOutages(ScoreOutageBatches) /\ ScoreBound
    \/ calculateCII

Next == NextIngest \/ NextTrack \/ NextScore \/ NextLearn

SpecIngest == Init /\ [][NextIngest]_vars
SpecTrack == Init /\ [][NextTrack]_vars
SpecScore == Init /\ [][NextScore]_vars
SpecLists == Init /\ [][NextLists]_vars
SpecLearn == Init /\ [][NextLearn]_vars
Spec == Init /\ [][Next]_vars

(***************************************************************************)
(* What the calls return in the current state                              *)
(***************************************************************************)
IsInLearningModeNow ==
    InLearningMode(hasCachedScoresAvailable, isLearningComplete, learningStartTime, now).value

ProgressNow ==
    LearningProgress(hasCachedScoresAvailable, isLearningComplete, learningStartTime, now)

IsScore(x) == x \in 0..100

WarStored(code) ==
    /\ MapHas(countryDataMap, code)
    /\ countryDataMap[code].ucdpStatus # << >>
    /\ countryDataMap[code].ucdpStatus[1].intensity = "war"

\* No data of any kind: no record, or a record as initCountryData makes it.
NoData(code) == ~MapHas(countryDataMap, code) \/ countryDataMap[code] = initCountryData

LenOf(cdm, code, field) == IF MapHas(cdm, code) THEN Len(cdm[code][field]) ELSE 0

IsPrefix(s, t) == Len(s) <= Len(t) /\ SubSeq(t, 1, Len(s)) = s

(***************************************************************************)
(* C1 (SpecScore)                                                          *)
(***************************************************************************)
\* C1: every score that calculateCII, getTopUnstableCountries and
\* getCountryScore return is a whole number from 0 to 100, whatever has been
\* ingested (classifications of any intensity included), cleared and scored.
\* Refuted: a classification whose intensity is none of war, minor, none makes
\* getUcdpFloor return undefined and the score NaN.
C1_ScoresInRange ==
    /\ \A i \in 1..Len(CIINow.scores) : IsScore(CIINow.scores[i].score)
    /\ \A n \in Limits : \A i \in 1..Len(TopNow(n)) : IsScore(TopNow(n)[i].score)
    /\ \A c \in ScoreCodes : ScoreNow(c) # << >> => IsScore(ScoreNow(c)[1])

(***************************************************************************)
(* C2 (SpecScore)                                                          *)
(***************************************************************************)
\* C2: whenever the classification stored for a country is "war", every score
\* computed for it, by calculateCII and by getCountryScore, is at least 70 and
\* its level is high or critical.  Refuted for the record that ingestUcdpForCII
\* stores under the key "constructor" (C5): its baseline risk is not a number.
C2_WarFloor ==
    /\ \A i \in 1..Len(CIINow.scores) :
          WarStored(CIINow.scores[i].code) =>
              /\ CIINow.scores[i].score >= 70
              /\ CIINow.scores[i].level \in {"high", "critical"}
    /\ \A c \in DOMAIN countryDataMap :
          WarStored(c) => /\ ScoreNow(c)[1] >= 70
                          /\ getLevel(ScoreNow(c)[1]) \in {"high", "critical"}

(***************************************************************************)
(* C3 (SpecLearn)                                                          *)
(***************************************************************************)
LearningOff == ~IsInLearningModeNow \/ ~ProgressNow.inLearning
BothOff == ~IsInLearningModeNow /\ ~ProgressNow.inLearning

\* C3: learning mode never reverts.  setHasCachedScores(true) makes
\* isInLearningMode and getLearningProgress().inLearning false at once, and
\* once either reports false both report false after every later step (flag
\* set or cleared, startLearning, clear, ingestion, scoring, clock advance).
C3_NeverReverts ==
    [][ /\ setHasCachedScores(TRUE) => BothOff'
        /\ LearningOff => BothOff' ]_vars

\* Inside the window, with the flag cleared again, learning mode stays off.
C3_FlagClearedAgain ==
    /\ ~hasCachedScoresAvailable
    /\ isLearningComplete
    /\ learningStartTime # << >>
    /\ now - learningStartTime[1] < LEARNING_DURATION_MS
    /\ BothOff

(***************************************************************************)
(* C4 (SpecLearn)                                                          *)
(***************************************************************************)
\* C4: right after the first startLearning (no cached scores, learning not
\* complete) getLearningProgress reports inLearning true, 15 minutes left and
\* progress 0; no later step moves the start of the window; once 15 minutes
\* have passed since that start it reports inLearning false, progress 100 and
\* 0 minutes left; and progress is always from 0 to 100.
C4_Warmup ==
    [][ /\ ProgressNow.progress \in 0..100
        /\ ProgressNow'.progress \in 0..100
        /\ (/\ startLearning
            /\ learningStartTime = << >>
            /\ ~hasCachedScoresAvailable
            /\ ~isLearningComplete)
           => ProgressNow' = [inLearning |-> TRUE, remainingMinutes |-> 15, progress |-> 0]
        /\ learningStartTime # << >> => learningStartTime' = learningStartTime
        /\ (/\ learningStartTime' # << >>
            /\ now' - learningStartTime'[1] >= LEARNING_DURATION_MS)
           => ProgressNow' = [inLearning |-> FALSE, remainingMinutes |-> 0,
                              progress |-> 100] ]_vars

\* The window has just elapsed, to the millisecond, and nothing but the clock
\* says so.
C4_WindowElapsed ==
    /\ ~hasCachedScoresAvailable
    /\ ~isLearningComplete
    /\ learningStartTime # << >>
    /\ learningStartTime[1] > 0
    /\ now - learningStartTime[1] = LEARNING_DURATION_MS
    /\ ~ProgressNow.inLearning

(***************************************************************************)
(* C5 (SpecIngest)                                                         *)
(***************************************************************************)
\* C5: every key of the country-data map and of the hotspot-activity map is a
\* code of the tier-1 whitelist.  Refuted: TIER1_COUNTRIES[code] is truthy for
\* the keys every object inherits, so ingestUcdpForCII, ingestHapiForCII and
\* ingestDisplacementForCII store a record under "constructor".
C5_OnlyWhitelist ==
    /\ DOMAIN countryDataMap \subseteq Tier1Codes
    /\ DOMAIN hotspotActivityMap \subseteq Tier1Codes

(***************************************************************************)
(* C6 (SpecIngest)                                                         *)
(***************************************************************************)
\* The entry c of a displacement batch names the country code: by its ISO-3
\* code, by its name, or by the code itself.
Denotes(c, code) ==
    \/ c.code = code
    \/ ISO3_TO_ISO2(c.code) = code
    \/ COUNTRY_NAME_TO_ISO(c.name) = code

\* refugees + asylumSeekers of the last entry of the batch that names the
\* country, 0 if none does
OutflowIn(batch, code) ==
    LET named == {i \in 1..Len(batch) : Denotes(batch[i], code)}
        last == CHOOSE i \in named : \A j \in named : j <= i
    IN  IF named = {} THEN 0 ELSE batch[last].refugees + batch[last].asylumSeekers

\* C6: after ingestDisplacementForCII(batch) the outflow of every stored
\* country is refugees + asylumSeekers of its entry in the batch, 0 if the
\* batch has no entry for it, whatever was stored before; ingesting the batch
\* again changes nothing.  Refuted: an entry with an unlisted 3-letter code
\* such as IDX is cut to its first two letters and sets the outflow of
\* Indonesia, which the batch does not name (C14).
C6_OutflowFromBatch ==
    [][ \A b \in DisplacementBatches :
          ingestDisplacementForCII(b) =>
            /\ \A code \in DOMAIN countryDataMap' :
                  countryDataMap'[code].displacementOutflow = OutflowIn(b, code)
            /\ DisplacementLoop(ResetField(countryDataMap', "displacementOutflow"), b)
               = countryDataMap' ]_vars

(***************************************************************************)
(* C7 (SpecLists)                                                          *)
(***************************************************************************)
\* Every list of every record is a prefix of what it is after the step.
ListsKept ==
    \A code \in DOMAIN countryDataMap :
        /\ MapHas(countryDataMap', code)
        /\ \A f \in ListFields :
              IsPrefix(countryDataMap[code][f], countryDataMap'[code][f])

\* The events of a batch attributed to the country: by the text of their
\* country, by the keywords in their title, by their operator, and by their
\* location under another operator.
TextCount(events, code) ==
    Cardinality({i \in 1..Len(events) : normalizeCountryName(events[i].country) = code})
NewsCount(events, code) ==
    Cardinality({i \in 1..Len(events) : KeywordHit(code, events[i].primaryTitle)})
OwnCount(items, code) ==
    Cardinality({i \in 1..Len(items) : normalizeCountryName(items[i].operatorCountry) = code})
ForeignCountIn(items, code) ==
    Cardinality({i \in 1..Len(items) :
                    /\ getCountryFromLocation(items[i].pt) = code
                    /\ normalizeCountryName(items[i].operatorCountry) # code})

Grown(code, field, n) ==
    LenOf(countryDataMap', code, field) = LenOf(countryDataMap, code, field) + n

\* The step keeps every list unless it is the clear, and an ingestion appends
\* one entry per attributed event, perForeign entries for a flight or vessel
\* attributed by its location.
ListGrowth(perForeign) ==
    /\ clearCountryData \/ ListsKept
    /\ \A code \in Tier1Codes :
        /\ \A b \in ScoreProtestBatches :
              ingestProtestsForCII(b) => Grown(code, "protests", TextCount(b, code))
        /\ \A b \in ScoreConflictBatches :
              ingestConflictsForCII(b) => Grown(code, "conflicts", TextCount(b, code))
        /\ \A b \in ScoreOutageBatches :
              ingestOutagesForCII(b) => Grown(code, "outages", TextCount(b, code))
        /\ \A b \in ScoreNewsBatches :
              ingestNewsForCII(b) => Grown(code, "newsEvents", NewsCount(b, code))
        /\ \A b \in ScoreMilitaryBatches :
              ingestMilitaryForCII(b.flights, b.vessels) =>
                /\ Grown(code, "militaryFlights",
                         OwnCount(b.flights, code)
                         + perForeign * ForeignCountIn(b.flights, code))
                /\ Grown(code, "militaryVessels",
                         OwnCount(b.vessels, code)
                         + perForeign * ForeignCountIn(b.vessels, code))

\* C7, as stated: between two clears no list of any country gets shorter under
\* any ingestion or scoring call, and each ingestion appends one entry per
\* attributed event.  Refuted by a flight over the country under a foreign
\* operator, which appends two entries.
C7_OneEntryPerEvent == [][ListGrowth(1)]_vars

\* C7, amended: between two clears no list of any country gets shorter under
\* any ingestion or scoring call; each ingestion appends one entry per event
\* attributed to the country by text, keyword or operator, and two entries per
\* flight or vessel attributed to it by location only; so a batch ingested
\* twice is stored twice.
C7_ListsGrow == [][ListGrowth(2)]_vars

\* The same outage batch has been ingested twice, and a scoring call made.
C7_StoredTwice ==
    /\ MapHas(countryDataMap, ID)
    /\ Len(countryDataMap[ID].outages) = 2
    /\ countryDataMap[ID].outages[1] = countryDataMap[ID].outages[2]
    /\ MapHas(previousScores, ID)

(***************************************************************************)
(* C8 (SpecScore)                                                          *)
(***************************************************************************)
\* C8: clearCountryData leaves the country-data map and the hotspot-activity
\* map empty, and every other step keeps every key of both maps and lowers no
\* country's accumulated hotspot weight.
C8_OnlyClearRemoves ==
    [][ /\ clearCountryData =>
              countryDataMap' = EmptyMap /\ hotspotActivityMap' = EmptyMap
        /\ \/ clearCountryData
           \/ /\ DOMAIN countryDataMap \subseteq DOMAIN countryDataMap'
              /\ \A k \in DOMAIN hotspotActivityMap :
                    /\ MapHas(hotspotActivityMap', k)
                    /\ hotspotActivityMap'[k] >= hotspotActivityMap[k] ]_vars

\* Both maps are empty although a score of a country at war has been recorded:
\* the data behind it has been cleared.
C8_ClearedAfterScoring ==
    /\ countryDataMap = EmptyMap
    /\ hotspotActivityMap = EmptyMap
    /\ MapHas(previousScores, ID)
    /\ previousScores[ID] >= 70

(***************************************************************************)
(* C9 (SpecScore)                                                          *)
(***************************************************************************)
\* round(baselineRisk * 0.4)
BaselineShare(code) == MathRound((BaselineRisk(code) * 4) \div 10)

\* C9, as stated: calculateCII gives a whitelisted country with no data of any
\* kind the score round(baselineRisk * 0.4).  Refuted by a reported focal
\* urgency, and by a flight near one of the country's hotspots that is
\* attributed to no country.
C9_NoDataScore ==
    \A i \in 1..Len(CIINow.scores) :
        NoData(CIINow.scores[i].code) =>
            CIINow.scores[i].score = BaselineShare(CIINow.scores[i].code)

\* C9, amended: calculateCII gives a whitelisted country with no data of any
\* kind the score round(baselineRisk * 0.4) if no hotspot weight has
\* accumulated for it and its focal urgency is neither critical nor elevated.
C9_BaselineOnly ==
    \A i \in 1..Len(CIINow.scores) :
        (/\ NoData(CIINow.scores[i].code)
         /\ ActivityOf(hotspotActivityMap, CIINow.scores[i].code) = 0
         /\ FocalOf(focalUrgency, CIINow.scores[i].code) \notin {"critical", "elevated"})
        => CIINow.scores[i].score = BaselineShare(CIINow.scores[i].code)

\* Indonesia has a record, emptied again by a later displacement batch, and
\* calculateCII has scored it 8.
C9_EmptyRecordScored ==
    /\ MapHas(countryDataMap, ID)
    /\ countryDataMap[ID] = initCountryData
    /\ ActivityOf(hotspotActivityMap, ID) = 0
    /\ ~MapHas(focalUrgency, ID)
    /\ MapHas(previousScores, ID)
    /\ previousScores[ID] = 8
    /\ \E i \in 1..Len(CIINow.scores) :
          CIINow.scores[i].code = ID /\ CIINow.scores[i].score = 8

(***************************************************************************)
(* C10 (SpecScore)                                                         *)
(***************************************************************************)
\* C10: in every calculateCII result, with previous the score recorded before
\* the call, trend is rising exactly when score - previous >= 5, falling
\* exactly when score - previous <= -5 and stable otherwise, and change24h is
\* score - previous; with no previous score trend is stable and change24h is
\* 0.  Refuted: a score that is NaN (C1) with no previous score has change24h
\* NaN.
C10_TrendAndChange ==
    \A i \in 1..Len(CIINow.scores) :
        LET s == CIINow.scores[i]
        IN  IF MapHas(previousScores, s.code)
            THEN LET d == Minus(s.score, previousScores[s.code])
                 IN  /\ s.trend = "rising" <=> (d # NaN /\ d >= 5)
                     /\ s.trend = "falling" <=> (d # NaN /\ d <= -5)
                     /\ s.trend \in {"rising", "falling", "stable"}
                     /\ s.change24h = d
            ELSE s.trend = "stable" /\ s.change24h = 0

(***************************************************************************)
(* C11 (SpecTrack)                                                         *)
(***************************************************************************)
\* The country text of the event resolves to a whitelisted country.
TextAttributed(e) ==
    normalizeCountryName(e.country) # << >> /\ InTier1(normalizeCountryName(e.country))

\* The operator or the position of the flight or vessel resolves to a
\* whitelisted country.
MilitaryAttributed(f) ==
    \/ normalizeCountryName(f.operatorCountry) # << >>
       /\ InTier1(normalizeCountryName(f.operatorCountry))
    \/ getCountryFromLocation(f.pt) # << >> /\ InTier1(getCountryFromLocation(f.pt))

\* The two maps after the step are those of st.
MapsAre(st) == countryDataMap' = st.cdm /\ hotspotActivityMap' = st.ham

\* Ingesting a batch leaves what ingesting only its attributed events leaves;
\* for flights and vessels the hotspot-activity map is compared only if
\* militaryToo.
UnattributedDropped(militaryToo) ==
    /\ \A b \in ProtestBatches :
          ingestProtestsForCII(b) => MapsAre(ProtestsResult(SelectSeq(b, TextAttributed)))
    /\ \A b \in ConflictBatches :
          ingestConflictsForCII(b) => MapsAre(ConflictsResult(SelectSeq(b, TextAttributed)))
    /\ \A b \in OutageBatches :
          ingestOutagesForCII(b) => MapsAre(OutagesResult(SelectSeq(b, TextAttributed)))
    /\ \A b \in MilitaryBatches :
          ingestMilitaryForCII(b.flights, b.vessels) =>
            /\ countryDataMap' =
                 MilitaryResult(Here, SelectSeq(b.flights, MilitaryAttributed),
                                SelectSeq(b.vessels, MilitaryAttributed)).cdm
            /\ militaryToo =>
                 hotspotActivityMap' =
                   MilitaryResult(Here, SelectSeq(b.flights, MilitaryAttributed),
                                  SelectSeq(b.vessels, MilitaryAttributed)).ham

\* C11, as stated: an event attributed to no whitelisted country (by text for
\* protests, conflicts and outages; by operator and by position for flights
\* and vessels) is dropped, leaving the country-data map and the
\* hotspot-activity map as they were.  Refuted by a flight of a foreign
\* operator outside the country but within range of one of its hotspots:
\* ingestMilitaryForCII tracks its position all the same.
C11_EventDropped == [][UnattributedDropped(TRUE)]_vars

\* C11, amended: a protest, conflict or outage attributed to no whitelisted
\* country leaves both maps as they were; a flight or vessel attributed to no
\* whitelisted country leaves the country-data map as it was (its position is
\* still tracked against the hotspot registries).
C11_UnattributedDropped == [][UnattributedDropped(FALSE)]_vars

\* Indonesia has hotspot weight from a flight that left it no record.
C11_TrackedWithoutRecord ==
    /\ countryDataMap = EmptyMap
    /\ ActivityOf(hotspotActivityMap, ID) = 6

(***************************************************************************)
(* C12 (SpecTrack)                                                         *)
(***************************************************************************)
\* The flights or vessels of a batch operated by the country and located in it.
LocalCount(items, code) ==
    Cardinality({i \in 1..Len(items) :
                    /\ normalizeCountryName(items[i].operatorCountry) = code
                    /\ getCountryFromLocation(items[i].pt) = code})

\* C12: ingestMilitaryForCII makes the flight list of each whitelisted country
\* longer by the number of flights whose operator resolves to it plus twice
\* the number of flights located in it whose operator resolves to another
\* country or to none, and likewise the vessel list; a batch of flights
\* operated by the country they are located in adds one entry for each.
C12_MilitaryGrowth ==
    [][ \A b \in MilitaryBatches : \A code \in Tier1Codes :
          ingestMilitaryForCII(b.flights, b.vessels) =>
            /\ Grown(code, "militaryFlights",
                     OwnCount(b.flights, code) + 2 * ForeignCountIn(b.flights, code))
            /\ Grown(code, "militaryVessels",
                     OwnCount(b.vessels, code) + 2 * ForeignCountIn(b.vessels, code))
            /\ LocalCount(b.flights, code) = Len(b.flights) =>
                 Grown(code, "militaryFlights", Len(b.flights))
            /\ LocalCount(b.vessels, code) = Len(b.vessels) =>
                 Grown(code, "militaryVessels", Len(b.vessels)) ]_vars

\* Indonesia holds its own flight over Jakarta, stored once, followed by the
\* two placeholders of a foreign flight over Jakarta.
C12_OwnOnceForeignTwice ==
    /\ MapHas(countryDataMap, ID)
    /\ countryDataMap[ID].militaryFlights =
         << Military(Indonesia, "jakarta"), Placeholder, Placeholder >>

(***************************************************************************)
(* C13 (SpecScore)                                                         *)
(***************************************************************************)
\* C13: calculateCII returns exactly one entry for each whitelisted country,
\* also for a country with no data, ordered by non-increasing score, and
\* getTopUnstableCountries(n) returns the first min(n, number of whitelisted
\* countries) entries of that ranking.
C13_OnePerCountryRanked ==
    /\ Len(CIINow.scores) = Cardinality(Tier1Codes)
    /\ \A code \in Tier1Codes :
          Cardinality({i \in 1..Len(CIINow.scores) : CIINow.scores[i].code = code}) = 1
    /\ \A i, j \in 1..Len(CIINow.scores) :
          i < j => CIINow.scores[i].score >= CIINow.scores[j].score
    /\ \A n \in Limits :
          TopNow(n) = SubSeq(CIINow.scores, 1, Min(n, Cardinality(Tier1Codes)))

\* A scoring call has recorded the score of Indonesia, which has no data; the
\* ranking holds its entry, the top 0 is empty and the top 2 is the ranking.
C13_RankedWithoutData ==
    /\ NoData(ID)
    /\ MapHas(previousScores, ID)
    /\ CIINow.scores[1].code = ID
    /\ previousScores[ID] = CIINow.scores[1].score
    /\ TopNow(0) = << >>
    /\ TopNow(2) = CIINow.scores

(***************************************************************************)
(* C14 (SpecIngest)                                                        *)
(***************************************************************************)
\* The code of the batch entry is on the whitelist.
CodeWhitelisted(c) == c.code \in Tier1Codes

\* The entry of a displacement batch names a whitelisted country.
DenotesWhitelisted(c) == \E code \in Tier1Codes : Denotes(c, code)

\* What is stored for the country: << >> if nothing
RecordOf(cdm, code) == IF MapHas(cdm, code) THEN << cdm[code] >> ELSE << >>

\* After the step every whitelisted country holds what cdm holds for it.
WhitelistedAsIn(cdm) ==
    \A code \in Tier1Codes : RecordOf(countryDataMap', code) = RecordOf(cdm, code)

\* C14: a batch entry whose code is malformed or denotes no whitelisted
\* country changes nothing stored for a whitelisted country: every whitelisted
\* country holds after ingestUcdpForCII, ingestHapiForCII and
\* ingestDisplacementForCII what it holds when the batch is ingested without
\* such entries.  Refuted by the displacement entry with the code IDX, which
\* is cut to ID and sets the outflow of Indonesia.
C14_BadCodesFiltered ==
    [][ /\ \A b \in UcdpBatches :
              ingestUcdpForCII(b) =>
                WhitelistedAsIn(UcdpResult(SelectSeq(b, CodeWhitelisted)).cdm)
        /\ \A b \in HapiBatches :
              ingestHapiForCII(b) =>
                WhitelistedAsIn(HapiResult(SelectSeq(b, CodeWhitelisted)).cdm)
        /\ \A b \in DisplacementBatches :
              ingestDisplacementForCII(b) =>
                WhitelistedAsIn(DisplacementResult(SelectSeq(b, DenotesWhitelisted)).cdm)
      ]_vars

(***************************************************************************)
(* C15 (SpecTrack)                                                         *)
(***************************************************************************)
\* The registry entries within range of the point that are mapped to the
\* country: point hotspots, conflict zones, strategic waterways.
HotspotHits(pt, code) ==
    Cardinality({i \in 1..Len(HotspotsInRange(pt)) :
                    HOTSPOT_COUNTRY_MAP(HotspotsInRange(pt)[i]) = code})
ZoneHits(pt, code) ==
    Cardinality({ij \in (1..Len(ZonesInRange(pt))) \X (1..2) :
                    /\ ij[2] <= Len(zoneCountries(ZonesInRange(pt)[ij[1]]))
                    /\ zoneCountries(ZonesInRange(pt)[ij[1]])[ij[2]] = code})
WaterwayHits(pt, code) ==
    Cardinality({ij \in (1..Len(WaterwaysInRange(pt))) \X (1..2) :
                    /\ ij[2] <= Len(waterwayCountries(WaterwaysInRange(pt)[ij[1]]))
                    /\ waterwayCountries(WaterwaysInRange(pt)[ij[1]])[ij[2]] = code})

\* What a tracked point of weight w adds to the country, in quarter units:
\* the weight times 1 per hotspot, times 2 per zone, times 1.5 per waterway.
PointWeight(pt, code, w) ==
    IF code \in Tier1Codes
    THEN w * HotspotHits(pt, code) + 2 * w * ZoneHits(pt, code)
         + ((3 * w) \div 2) * WaterwayHits(pt, code)
    ELSE 0

ProtestWeight(e) == IF e.severity = "high" THEN 8 ELSE 4
ConflictWeight(e) == IF e.fatalities > 0 THEN 12 ELSE 8

\* The weight the tracked points of a batch add to the country.
ProtestsWeight(b, code) ==
    SumSeq([i \in 1..Len(b) |->
              IF TextAttributed(b[i]) THEN PointWeight(b[i].pt, code, ProtestWeight(b[i]))
              ELSE 0])
ConflictsWeight(b, code) ==
    SumSeq([i \in 1..Len(b) |->
              IF TextAttributed(b[i]) THEN PointWeight(b[i].pt, code, ConflictWeight(b[i]))
              ELSE 0])
MilitaryWeight(items, code, w) ==
    SumSeq([i \in 1..Len(items) |-> PointWeight(items[i].pt, code, w)])

Accrued(code, w) ==
    ActivityOf(hotspotActivityMap', code) = ActivityOf(hotspotActivityMap, code) + w

\* The countries whose boost is looked at: the whitelisted one and two others.
BoostCodes == Tier1Codes \cup {UA, constructorKey}

\* C15: the hotspot boost of every country is min(10, 1.5 * accumulated
\* weight) and lies in [0, 10]; the accumulated weight starts at 0, is 0 again
\* after a clear, grows under each ingestion by the weight of each tracked
\* point times the multiplier of each registry entry in range mapped to the
\* country (hotspots x1, zones x2, waterways x1.5), and is kept by every other
\* step.
C15_HotspotBoost ==
    [][ /\ \A code \in BoostCodes :
              /\ getHotspotBoost(hotspotActivityMap', code) \in 0..(10 * K)
              /\ getHotspotBoost(hotspotActivityMap', code)
                   = IF 3 * ActivityOf(hotspotActivityMap', code) >= 8 * 10
                     THEN 10 * K
                     ELSE (3 * ActivityOf(hotspotActivityMap', code) * K) \div 8
        /\ clearCountryData => hotspotActivityMap' = EmptyMap
        /\ \A b \in ProtestBatches :
              ingestProtestsForCII(b) =>
                \A code \in BoostCodes : Accrued(code, ProtestsWeight(b, code))
        /\ \A b \in ConflictBatches :
              ingestConflictsForCII(b) =>
                \A code \in BoostCodes : Accrued(code, ConflictsWeight(b, code))
        /\ \A b \in MilitaryBatches :
              ingestMilitaryForCII(b.flights, b.vessels) =>
                \A code \in BoostCodes :
                    Accrued(code, MilitaryWeight(b.flights, code, 6)
                                  + MilitaryWeight(b.vessels, code, 8))
        /\ hotspotActivityMap' # hotspotActivityMap =>
              \/ clearCountryData
              \/ \E b \in ProtestBatches : ingestProtestsForCII(b)
              \/ \E b \in ConflictBatches : ingestConflictsForCII(b)
              \/ \E b \in MilitaryBatches : ingestMilitaryForCII(b.flights, b.vessels)
      ]_vars

\* Indonesia has accumulated the weight 7 (a high-severity protest in Jakarta,
\* in range of two hotspots, and a foreign flight off Aceh), and its boost has
\* reached the cap of 10.
C15_BoostCapped ==
    /\ ActivityOf(hotspotActivityMap, ID) = 28
    /\ getHotspotBoost(hotspotActivityMap, ID) = 10 * K

(***************************************************************************)
(* C16 (SpecIngest)                                                        *)
(***************************************************************************)
\* The batch holds an anomaly of one of the severities for a zone mapped to
\* the country.
AnomalyFor(b, code, severities) ==
    \E i \in 1..Len(b) :
        /\ b[i].severity \in severities
        /\ \E j \in 1..Len(ZONE_COUNTRY_MAP(b[i].zone)) :
              ZONE_COUNTRY_MAP(b[i].zone)[j] = code

ExpectedStress(b, code) ==
    IF AnomalyFor(b, code, {"extreme"}) THEN 15
    ELSE IF AnomalyFor(b, code, {"moderate"}) THEN 8
    ELSE 0

\* C16: the stored climate stress of every country is 0, 8 or 15, and after
\* ingestClimateForCII(batch) it is 15 if the batch holds an extreme anomaly
\* for a zone mapped to the country, else 8 if it holds another anomaly that
\* is not normal for such a zone, else 0, whatever the order of the batch and
\* the value stored before.
C16_ClimateStress ==
    [][ /\ \A code \in DOMAIN countryDataMap' :
              countryDataMap'[code].climateStress \in {0, 8, 15}
        /\ \A b \in ClimateBatches :
              ingestClimateForCII(b) =>
                \A code \in DOMAIN countryDataMap' :
                    countryDataMap'[code].climateStress = ExpectedStress(b, code) ]_vars

\* Indonesia has a record, and ingesting an extreme anomaly of the zone
\* Ukraine, which is not mapped to it, leaves its climate stress at 0.
C16_ZoneOfAnotherCountry ==
    /\ MapHas(countryDataMap, ID)
    /\ countryDataMap[ID].climateStress = 0
    /\ ClimateResult(<< Anomaly("Ukraine", "extreme") >>).cdm[ID].climateStress = 0
    /\ ExpectedStress(<< Anomaly("Ukraine", "extreme") >>, UA) = 15

(***************************************************************************)
(* C17 (SpecIngest)                                                        *)
(***************************************************************************)
\* What the scorers read for the country: its record, or an empty one.
DataOf(code) == IF MapHas(countryDataMap, code) THEN countryDataMap[code] ELSE initCountryData

\* The terms of the conflict sub-score, from the event list alone.
EventTerm(events, code) ==
    Min(50 * K, ((3 * CountOf(events, "eventType", {"battle"})
                  + 4 * CountOf(events, "eventType", {"explosion", "remote_violence"})
                  + 5 * CountOf(events, "eventType", {"violence_against_civilians"}))
                 * EventMultiplier(code) * K) \div 10)
FatalityTerm(events, code) ==
    Min(40 * K, (MathSqrt(SumSeq([i \in 1..Len(events) |-> events[i].fatalities]))
                 * 5 * EventMultiplier(code)) \div 10)
CivilianBonus(events) ==
    Min(10 * K, 3 * K * CountOf(events, "eventType", {"violence_against_civilians"}))

SummaryFallback(h, code) ==
    Min(60 * K, ((h.eventsPoliticalViolence * 2 + h.eventsCivilianTargeting * 3)
                 * EventMultiplier(code) * K) \div 10)

\* The summaries a record may hold: none, or one of the sample batches.
SampleSummaries ==
    {<< >>} \cup UNION {{<< b[i].summary >> : i \in 1..Len(b)} : b \in HapiBatches}

\* C17: the conflict sub-score of a whitelisted country is 0 with no conflict
\* event and no summary; with no conflict event and a summary it is the
\* fallback min(60, (politicalViolence * 2 + civilianTargeting * 3) *
\* multiplier); with at least one conflict event it is min(100, event term +
\* fatality term + civilian bonus), the same whatever summary is stored.
C17_ConflictScore ==
    \A code \in Tier1Codes :
        /\ DataOf(code).conflicts = << >> /\ DataOf(code).hapiSummary = << >>
              => calcConflictScore(DataOf(code), code) = 0
        /\ DataOf(code).conflicts = << >> /\ DataOf(code).hapiSummary # << >>
              => calcConflictScore(DataOf(code), code)
                   = SummaryFallback(DataOf(code).hapiSummary[1], code)
        /\ DataOf(code).conflicts # << >>
              => \A h \in SampleSummaries \cup {DataOf(code).hapiSummary} :
                    calcConflictScore([DataOf(code) EXCEPT !["hapiSummary"] = h], code)
                      = Min(100 * K, EventTerm(DataOf(code).conflicts, code)
                                     + FatalityTerm(DataOf(code).conflicts, code)
                                     + CivilianBonus(DataOf(code).conflicts))

\* Indonesia holds a conflict event and a summary whose fallback alone would be
\* 60: its conflict sub-score is below 60, and 60 without the event.
C17_FallbackSuppressed ==
    /\ MapHas(countryDataMap, ID)
    /\ countryDataMap[ID].conflicts # << >>
    /\ countryDataMap[ID].hapiSummary # << >>
    /\ SummaryFallback(countryDataMap[ID].hapiSummary[1], ID) = 60 * K
    /\ calcConflictScore(countryDataMap[ID], ID) < 60 * K
    /\ calcConflictScore([countryDataMap[ID] EXCEPT !["conflicts"] = << >>], ID) = 60 * K

(***************************************************************************)
(* C18 (SpecLists)                                                         *)
(***************************************************************************)
\* Every record of before the step is still there, with every field but those
\* of own as it was; the recorded scores and the learning state are as they
\* were.
OnlyFields(own) ==
    /\ \A code \in DOMAIN countryDataMap :
          /\ MapHas(countryDataMap', code)
          /\ \A f \in (DOMAIN initCountryData) \ own :
                countryDataMap'[code][f] = countryDataMap[code][f]
    /\ previousScores' = previousScores
    /\ learningStartTime' = learningStartTime
    /\ isLearningComplete' = isLearningComplete
    /\ hasCachedScoresAvailable' = hasCachedScoresAvailable

\* C18: each ingestion function changes only the fields of its own signal in
\* the records that exist (protests; conflicts; the classification; the
\* summary; displacementOutflow; climateStress; the flight and vessel lists;
\* newsEvents; outages), and none changes the recorded previous scores or the
\* learning-mode state.
C18_OwnFieldsOnly ==
    [][ /\ \A b \in ScoreProtestBatches :
              ingestProtestsForCII(b) => OnlyFields({"protests"})
        /\ \A b \in ScoreConflictBatches :
              ingestConflictsForCII(b) => OnlyFields({"conflicts"})
        /\ \A b \in ScoreUcdpBatches :
              ingestUcdpForCII(b) => OnlyFields({"ucdpStatus"})
        /\ \A b \in ScoreHapiBatches :
              ingestHapiForCII(b) => OnlyFields({"hapiSummary"})
        /\ \A b \in ScoreDisplacementBatches :
              ingestDisplacementForCII(b) => OnlyFields({"displacementOutflow"})
        /\ \A b \in ScoreClimateBatches :
              ingestClimateForCII(b) => OnlyFields({"climateStress"})
        /\ \A b \in ScoreMilitaryBatches :
              ingestMilitaryForCII(b.flights, b.vessels) =>
                OnlyFields({"militaryFlights", "militaryVessels"})
        /\ \A b \in ScoreNewsBatches :
              ingestNewsForCII(b) => OnlyFields({"newsEvents"})
        /\ \A b \in ScoreOutageBatches :
              ingestOutagesForCII(b) => OnlyFields({"outages"}) ]_vars

\* Indonesia's record holds a protest and a classification beside an outflow
\* of 0, and a score of it has been recorded.
C18_SeveralSignals ==
    /\ MapHas(countryDataMap, ID)
    /\ MapHas(previousScores, ID)
    /\ Len(countryDataMap[ID].protests) = 1
    /\ countryDataMap[ID].ucdpStatus # << >>
    /\ countryDataMap[ID].displacementOutflow = 0

(***************************************************************************)
(* C19 (SpecIngest)                                                        *)
(***************************************************************************)
\* The classification or summary stored for the country: << >> if none
StoredIn(cdm, code, field) == IF MapHas(cdm, code) THEN cdm[code][field] ELSE << >>

\* The value the batch gives for the country under key: << >> if the batch
\* omits the country
GivenIn(b, code, key) ==
    LET named == {i \in 1..Len(b) : b[i].code = code}
    IN  IF named = {} THEN << >>
        ELSE << b[CHOOSE i \in named : \A j \in named : j <= i][key] >>

\* After the step the country holds under field what the batch gives for it,
\* and what it held before if the batch omits it.
LatestOf(b, code, field, key) ==
    StoredIn(countryDataMap', code, field)
      = IF GivenIn(b, code, key) # << >> THEN GivenIn(b, code, key)
        ELSE StoredIn(countryDataMap, code, field)

\* C19: the classification (the summary) stored for a whitelisted country is
\* the one given for it by the most recent ingestUcdpForCII (ingestHapiForCII)
\* batch that contained it: a batch with the country replaces the value, a
\* batch without it and every other call but clearCountryData keep it, and
\* the clear removes it.
C19_LatestStored ==
    [][ \A code \in Tier1Codes :
          /\ \A b \in UcdpBatches :
                ingestUcdpForCII(b) => LatestOf(b, code, "ucdpStatus", "status")
          /\ \A b \in HapiBatches :
                ingestHapiForCII(b) => LatestOf(b, code, "hapiSummary", "summary")
          /\ clearCountryData =>
                /\ StoredIn(countryDataMap', code, "ucdpStatus") = << >>
                /\ StoredIn(countryDataMap', code, "hapiSummary") = << >>
          /\ StoredIn(countryDataMap', code, "ucdpStatus")
               # StoredIn(countryDataMap, code, "ucdpStatus")
               => clearCountryData \/ \E b \in UcdpBatches : ingestUcdpForCII(b)
          /\ StoredIn(countryDataMap', code, "hapiSummary")
               # StoredIn(countryDataMap, code, "hapiSummary")
               => clearCountryData \/ \E b \in HapiBatches : ingestHapiForCII(b) ]_vars

\* Indonesia holds the classification 'minor' and the summary of a batch that
\* also held one for Ukraine.
C19_ClassificationAndSummary ==
    /\ StoredIn(countryDataMap, ID, "ucdpStatus") = << [intensity |-> "minor"] >>
    /\ StoredIn(countryDataMap, ID, "hapiSummary")
         = << [eventsPoliticalViolence |-> 40, eventsCivilianTargeting |-> 0] >>

(***************************************************************************)
(* C20 (SpecScore)                                                         *)
(***************************************************************************)
\* C20: for every country with a record, getCountryScore(code) returns the
\* score of the entry of that code in the list calculateCII returns in the
\* same state.  Refuted: calculateCII rounds the four component scores before
\* it blends them, getCountryScore blends them unrounded, and the two final
\* roundings fall on different sides of a half.
C20_SameScore ==
    \A i \in 1..Len(CIINow.scores) :
        MapHas(countryDataMap, CIINow.scores[i].code) =>
            ScoreNow(CIINow.scores[i].code) = << CIINow.scores[i].score >>

(***************************************************************************)
(* C21 (SpecScore)                                                         *)
(***************************************************************************)
\* The step is a scoring call.
ScoringCall == calculateCII \/ \E n \in Limits : getTopUnstableCountries(n)

\* What a scoring call made in the state after the step returns.
CIINext ==
    CIIResult(countryDataMap', hotspotActivityMap', focalUrgency', previousScores', now')

\* C21: after a scoring call (calculateCII or getTopUnstableCountries) the
\* previous scores hold for every whitelisted country the score that call
\* computed, so that a scoring call following it with nothing changed in
\* between reports the trend stable and change24h 0 for every country.
\* Refuted: a score that is NaN (C1) is recorded as NaN, and the following call
\* reports change24h NaN.
C21_RecordedThenStable ==
    [][ ScoringCall =>
          /\ \A i \in 1..Len(CIINow.scores) :
                /\ MapHas(previousScores', CIINow.scores[i].code)
                /\ previousScores'[CIINow.scores[i].code] = CIINow.scores[i].score
          /\ DOMAIN previousScores' = DOMAIN previousScores \cup Tier1Codes
          /\ \A i \in 1..Len(CIINext.scores) :
                /\ CIINext.scores[i].trend = "stable"
                /\ CIINext.scores[i].change24h = 0 ]_vars

(***************************************************************************)
(* C22 (SpecLearn)                                                         *)
(***************************************************************************)
\* C22: in every state and at every clock value isInLearningMode() and
\* getLearningProgress().inLearning are the same boolean, and
\* getLearningProgress().progress is 100 whenever inLearning is false.
C22_SameAnswer ==
    /\ IsInLearningModeNow = ProgressNow.inLearning
    /\ ~ProgressNow.inLearning => ProgressNow.progress = 100

\* One millisecond past the window, with neither flag set: both calls answer
\* false from the clock alone, and the progress is 100.
C22_JustPastWindow ==
    /\ ~hasCachedScoresAvailable
    /\ ~isLearningComplete
    /\ learningStartTime # << >>
    /\ now - learningStartTime[1] = LEARNING_DURATION_MS + 1
    /\ ~IsInLearningModeNow
    /\ ProgressNow = [inLearning |-> FALSE, remainingMinutes |-> 0, progress |-> 100]

(***************************************************************************)
(* C23 (SpecLearn)                                                         *)
(***************************************************************************)
\* C23: clearCountryData leaves the previous scores and the learning-mode
\* state (start time, completion flag, cached-scores flag) as they were, so
\* the first calculateCII after the clear reports trend and change24h against
\* the scores recorded before the clear.
C23_ClearKeepsScores ==
    [][ clearCountryData =>
          /\ previousScores' = previousScores
          /\ learningStartTime' = learningStartTime
          /\ isLearningComplete' = isLearningComplete
          /\ hasCachedScoresAvailable' = hasCachedScoresAvailable
          /\ \A i \in 1..Len(CIINext.scores) :
                MapHas(previousScores, CIINext.scores[i].code) =>
                  /\ CIINext.scores[i].change24h
                       = Minus(CIINext.scores[i].score,
                               previousScores[CIINext.scores[i].code])
                  /\ CIINext.scores[i].trend
                       = getTrend(previousScores, CIINext.scores[i].code,
                                  CIINext.scores[i].score) ]_vars

\* The data has been cleared after a score was recorded and the learning
\* window started: the next scoring call reports Indonesia falling against the
\* score of before the clear.
C23_FallingAfterClear ==
    /\ countryDataMap = EmptyMap
    /\ learningStartTime # << >>
    /\ MapHas(previousScores, ID)
    /\ CIINow.scores[1].trend = "falling"
    /\ CIINow.scores[1].change24h = CIINow.scores[1].score - previousScores[ID]
    /\ CIINow.scores[1].change24h <= -5

====
